---- MODULE Spec2Model ----
(***************************************************************************)
(* A model of teleproto.                                                   *)
(*                                                                         *)
(*  - the update engine (src/teleproto/crypto/CTR.ts, lines 95-571): the   *)
(*    event handler registry, catchUp, _handleUpdate, _dispatchUpdate and  *)
(*    the keepalive loop _updateLoop;                                      *)
(*  - the schema parser (src/teleproto_generator/parser.ts and crc32.ts);  *)
(*  - AES-IGE (src/teleproto/crypto/IGE.ts);                               *)
(*  - the sign-in flows signInUser and signInWithPassword                  *)
(*    (src/unnamed/part_004).                                              *)
(*                                                                         *)
(* Each part has its own variables and its own specification; the other    *)
(* parts stay idle in it.                                                  *)
(*                                                                         *)
(* JavaScript runs one activity at a time and switches activity only at    *)
(* an await or a timer.  Every action below is one synchronous segment of  *)
(* the code: from a resumption to the next suspension.                     *)
(***************************************************************************)
EXTENDS Integers, Sequences, FiniteSets, TLC

(***************************************************************************)
(* Bounds of the model.                                                    *)
(***************************************************************************)
\* number of catchUp invocations in one behaviour
MaxCalls == 2
\* number of GetDifference responses the server has ready
MaxScript == 4
\* number of pairs client._eventBuilders holds at most while updates are dispatched
MaxHandlers == 2
\* number of pairs client._eventBuilders holds at most when only the registry is used
MaxRegistry == 3
\* number of addEventHandler calls without an event in one behaviour
MaxRaw == 1
\* number of keepalive ticks in one behaviour
MaxTicks == 3
\* number of lines of the schema text given to parseTl
MaxLines == 2
\* number of encryptIge and decryptIge calls on one IGE instance
MaxIgeCalls == 2
\* number of times a sign-in flow calls authParams.onError
MaxErrors == 2
\* number of GetDifference responses the server has ready while the keepalive
\* loop runs beside catchUp
MaxSyncScript == 1
\* number of keepalive ticks while the loop runs beside catchUp
MaxSyncTicks == 2
\* number of answer() calls made on one inline query event
MaxAnswers == 3

(***************************************************************************)
(* ---------------------------- catchUp ---------------------------------- *)
(***************************************************************************)
VARIABLES
    updateState,  \* client._updateState: NoState or [pts, qts, date, seq]
    script,       \* the GetDifference responses the server will give, in order
    nserved,      \* how many GetDifference answers the server has given
    ncalls,       \* how many times catchUp has been called
    cu            \* the running or last catchUp invocation of each caller

cuVars == <<updateState, script, nserved, ncalls, cu>>

VARIABLES
    eventBuilders,   \* client._eventBuilders: the array of [builder, callback]
    rounds,          \* the _dispatchUpdate calls in progress or ended last, by slot
    nraw,            \* how many Raw builders addEventHandler has made
    cur,             \* the activity that is running
    hu,              \* the _handleUpdate call that runs or ran last
    resolved,        \* the builders whose resolved flag is set
    selfPeer,        \* whether client._selfInputPeer is set
    errorHandlerSet  \* whether client._errorHandler is set

dVars == <<eventBuilders, rounds, nraw, cur, hu, resolved, selfPeer,
           errorHandlerSet>>

VARIABLES
    regLast          \* the last addEventHandler / removeEventHandler call

rVars == <<regLast>>

VARIABLES
    destroyed,       \* client._destroyed
    isReconnecting,  \* client._sender.isReconnecting
    isSwitchingDc,   \* client._isSwitchingDc
    disconnected,    \* client.disconnected
    loop,            \* the _updateLoop call
    nticks,          \* how many times sleep(PING_INTERVAL) has returned
    lastSignal       \* the last connection signal _updateLoop gave to _handleUpdate

lVars == <<destroyed, isReconnecting, isSwitchingDc, disconnected, loop,
           nticks, lastSignal>>

VARIABLES
    content,         \* the schema text given to parseTl, as a sequence of lines
    tl               \* the parseTl call

pVars == <<content, tl>>

VARIABLES
    ige              \* one IGE instance: its key, its iv and the calls made on it

iVars == <<ige>>

VARIABLES
    auth             \* one sign-in flow: what it awaits and its local variables

aVars == <<auth>>

VARIABLES
    race             \* the timeout calls made for one probe and their caller

tVars == <<race>>

VARIABLES
    gen              \* the parseTl call of generationHelpers.js, run to its end

gVars == <<gen>>

VARIABLES
    inline           \* one InlineQueryEvent and the answer() calls made on it

qVars == <<inline>>

\* the variables outside the update engine
xVars == <<pVars, iVars, aVars, tVars, gVars, qVars>>

\* the variables of the update engine
engineVars == <<cuVars, dVars, rVars, lVars>>

vars == <<engineVars, xVars>>

NoState == [pts |-> 0, qts |-> 0, date |-> 0, seq |-> 0]
\* a client whose state was initialized earlier
SyncedState == [pts |-> 1, qts |-> 2, date |-> 3, seq |-> 4]
\* the answer of updates.GetState
ServerState == [pts |-> 61, qts |-> 62, date |-> 63, seq |-> 64]

\* The kinds of answer to updates.GetDifference.
DiffKinds == {"Empty", "Slice", "Full", "TooLong"}

\* The n-th answer of the server, of kind k.  An answer carries the fields its
\* kind has: DifferenceEmpty {date, seq}; Difference {state, newMessages,
\* otherUpdates}; DifferenceSlice {intermediateState, newMessages,
\* otherUpdates}; DifferenceTooLong {pts}.  st holds state or
\* intermediateState, or the answer's own date, seq or pts.  Every answer has
\* numbers of its own, so that answers and their updates can be told apart.
Diff(d) ==
    [kind |-> d.kind,
     st |-> [pts  |-> IF d.kind = "Empty" THEN 0 ELSE 10 * d.n + 1,
             qts  |-> IF d.kind \in {"Empty", "TooLong"} THEN 0 ELSE 10 * d.n + 2,
             date |-> IF d.kind = "TooLong" THEN 0 ELSE 10 * d.n + 3,
             seq  |-> IF d.kind = "TooLong" THEN 0 ELSE 10 * d.n + 4],
     newMessages |->
         IF d.kind \in {"Full", "Slice"}
         THEN << [id |-> 100 * d.n + 1, cls |-> "Message"],
                 [id |-> 100 * d.n + 2, cls |-> "MessageEmpty"],
                 [id |-> 100 * d.n + 3, cls |-> "MessageService"] >>
         ELSE << >>,
     otherUpdates |->
         IF d.kind \in {"Full", "Slice"}
         THEN << 100 * d.n + 4, 100 * d.n + 5 >>
         ELSE << >>]

NoDiff == [kind |-> "none", n |-> 0]

\* catchUp is exported and has no guard of its own: the reconnect path calls it
\* after a reconnect and the application may call it too.  Each caller awaits
\* its call before it calls again.
Calls == {"reconnect", "app"}

RECURSIVE SeqsUpTo(_, _)
\* all sequences over S of length at most n
SeqsUpTo(S, n) ==
    IF n = 0 THEN { << >> }
    ELSE LET shorter == SeqsUpTo(S, n - 1)
         IN  shorter \cup { Append(s, x) : s \in shorter, x \in S }

\* A call that has not begun.
IdleCall ==
    [pc |-> "idle", diff |-> NoDiff, recv |-> << >>, reqs |-> << >>,
     out |-> << >>, threw |-> FALSE, result |-> "pending", endState |-> NoState]

\* a slip in the request: date is read from seq
GetDifferenceRequest_DateFromSeq(st) == [pts |-> st.pts, date |-> st.seq, qts |-> st.qts]

\* new Api.updates.GetDifference({pts, date, qts}) read from client._updateState
GetDifferenceRequest(st) == [pts |-> st.pts, date |-> st.date, qts |-> st.qts]

\* a slip in the copy of the four fields: seq is taken from pts
AdoptedState_SeqFromPts(d) ==
    [pts |-> Diff(d).st.pts, qts |-> Diff(d).st.qts,
     date |-> Diff(d).st.date, seq |-> Diff(d).st.pts]

\* the state adopted from a Difference (diff.state) or a DifferenceSlice
\* (diff.intermediateState)
AdoptedState(d) ==
    [pts |-> Diff(d).st.pts, qts |-> Diff(d).st.qts,
     date |-> Diff(d).st.date, seq |-> Diff(d).st.seq]

\* an Empty handled like a Full: all four fields are overwritten
AfterEmpty_WholeState(st, d) == Diff(d).st

\* DifferenceEmpty: only date and seq are taken
AfterEmpty(st, d) == [st EXCEPT !.date = Diff(d).st.date, !.seq = Diff(d).st.seq]

\* a TooLong handled like an Empty as well: date and seq are overwritten too
AfterTooLong_DateSeqToo(st, d) ==
    [st EXCEPT !.pts = Diff(d).st.pts, !.date = Diff(d).st.date, !.seq = Diff(d).st.seq]

\* DifferenceTooLong: only pts is taken
AfterTooLong(st, d) == [st EXCEPT !.pts = Diff(d).st.pts]

RECURSIVE MessageFanOut(_)
\* _processDifference, first loop: each Message or MessageService becomes a
\* synthetic UpdateNewMessage handed to _processUpdate
MessageFanOut(ms) ==
    IF ms = << >> THEN << >>
    ELSE LET m == Head(ms)
         IN  (IF m.cls \in {"Message", "MessageService"}
              THEN << [t |-> "msg", v |-> m.id] >> ELSE << >>)
             \o MessageFanOut(Tail(ms))

\* _processDifference, second loop: every other update handed to _processUpdate
UpdateFanOut(us) == [i \in 1 .. Len(us) |-> [t |-> "upd", v |-> us[i]]]

\* the two loops in the other order: the other updates before the new messages
ProcessDifferenceLog_UpdatesFirst(d) ==
    << [t |-> "cache", v |-> 0], [t |-> "session", v |-> 0] >>
    \o UpdateFanOut(Diff(d).otherUpdates)
    \o MessageFanOut(Diff(d).newMessages)

\* what _processDifference does when neither entity store throws
ProcessDifferenceLog(d) ==
    << [t |-> "cache", v |-> 0], [t |-> "session", v |-> 0] >>
    \o MessageFanOut(Diff(d).newMessages)
    \o UpdateFanOut(Diff(d).otherUpdates)

\* the answer the server gives next
NextDiff == [kind |-> Head(script), n |-> nserved + 1]

\* a catch block that logs and throws again: the caller sees the rejection
CatchUpCatch_Rethrow(call, st) ==
    [call EXCEPT !.pc = "done", !.threw = TRUE, !.result = "rejected",
                 !.endState = st]

\* the catch block of catchUp: the error is logged and the call returns
CatchUpCatch(call, st) ==
    [call EXCEPT !.pc = "done", !.threw = TRUE, !.result = "resolved",
                 !.endState = st]

\* normal return of catchUp
CatchUpReturn(call, st) ==
    [call EXCEPT !.pc = "done", !.result = "resolved", !.endState = st]

\* catchUp is called: lines 166-192 up to the first await
CatchUpCall(c) ==
    /\ cu[c].pc \in {"idle", "done"}
    /\ ncalls < MaxCalls
    /\ ncalls' = ncalls + 1
    /\ IF updateState = NoState
       THEN cu' = [cu EXCEPT ![c] = [IdleCall EXCEPT !.pc = "wait_state"]]
       ELSE cu' = [cu EXCEPT ![c] = [IdleCall EXCEPT !.pc = "wait_diff",
                             !.reqs = << GetDifferenceRequest(updateState) >>]]
    /\ UNCHANGED <<updateState, script, nserved>>

\* no return after the state is created: the call goes on to fetch a difference
CatchUpGetStateReply_GoesOn(c) ==
    /\ cu[c].pc = "wait_state"
    /\ updateState' = ServerState
    /\ cu' = [cu EXCEPT ![c].pc = "wait_diff",
                        ![c].reqs = << GetDifferenceRequest(ServerState) >>]
    /\ UNCHANGED <<script, nserved, ncalls>>

\* the GetState answer arrives: lines 171-178
CatchUpGetStateReply(c) ==
    /\ cu[c].pc = "wait_state"
    /\ updateState' = ServerState
    /\ cu' = [cu EXCEPT ![c] = CatchUpReturn(@, ServerState)]
    /\ UNCHANGED <<script, nserved, ncalls>>

\* client.invoke rejects (GetState or GetDifference): line 227
CatchUpInvokeFails(c) ==
    /\ cu[c].pc \in {"wait_state", "wait_diff"}
    /\ cu' = [cu EXCEPT ![c] = CatchUpCatch(@, updateState)]
    /\ UNCHANGED <<updateState, script, nserved, ncalls>>

\* a DifferenceEmpty arrives: lines 194-197, 226
CatchUpEmpty(c) ==
    /\ cu[c].pc = "wait_diff"
    /\ script # << >>
    /\ Head(script) = "Empty"
    /\ updateState' = AfterEmpty(updateState, NextDiff)
    /\ cu' = [cu EXCEPT ![c] = CatchUpReturn([@ EXCEPT !.recv = Append(@, NextDiff)],
                                             updateState')]
    /\ script' = Tail(script)
    /\ nserved' = nserved + 1
    /\ UNCHANGED ncalls

\* a DifferenceTooLong arrives: lines 218-223, 226
CatchUpTooLong(c) ==
    /\ cu[c].pc = "wait_diff"
    /\ script # << >>
    /\ Head(script) = "TooLong"
    /\ updateState' = AfterTooLong(updateState, NextDiff)
    /\ cu' = [cu EXCEPT ![c] = CatchUpReturn([@ EXCEPT !.recv = Append(@, NextDiff)],
                                             updateState')]
    /\ script' = Tail(script)
    /\ nserved' = nserved + 1
    /\ UNCHANGED ncalls

\* a Difference or DifferenceSlice arrives and _processDifference runs
\* (it has no await of its own): lines 198-200, 208-210, 233-274.
\* failAt: which entity store throws, if any
CatchUpProcess(c) ==
    /\ cu[c].pc = "wait_diff"
    /\ script # << >>
    /\ Head(script) \in {"Full", "Slice"}
    /\ script' = Tail(script)
    /\ nserved' = nserved + 1
    /\ UNCHANGED <<updateState, ncalls>>
    /\ \E failAt \in {"none", "cache", "session"} :
          LET got == [cu[c] EXCEPT !.recv = Append(@, NextDiff)]
          IN  CASE failAt = "cache" ->
                     cu' = [cu EXCEPT ![c] = CatchUpCatch(got, updateState)]
                [] failAt = "session" ->
                     cu' = [cu EXCEPT ![c] =
                              CatchUpCatch([got EXCEPT !.out = Append(@, [t |-> "cache", v |-> 0])],
                                           updateState)]
                [] OTHER ->
                     cu' = [cu EXCEPT ![c] =
                              [got EXCEPT !.pc = "adopt", !.diff = NextDiff,
                                          !.out = @ \o ProcessDifferenceLog(NextDiff)]]

\* catchUp resumes after await _processDifference: lines 201-207, 211-216, and
\* for a slice the next request of the loop (lines 185-192)
CatchUpAdopt(c) ==
    /\ cu[c].pc = "adopt"
    /\ updateState' = AdoptedState(cu[c].diff)
    /\ IF Diff(cu[c].diff).kind = "Full"
       THEN cu' = [cu EXCEPT ![c] = CatchUpReturn([@ EXCEPT !.diff = NoDiff], updateState')]
       ELSE cu' = [cu EXCEPT ![c].pc = "wait_diff", ![c].diff = NoDiff,
                             ![c].reqs = Append(@, GetDifferenceRequest(updateState'))]
    /\ UNCHANGED <<script, nserved, ncalls>>

CatchUpInit ==
    /\ updateState \in {NoState, SyncedState}
    /\ script \in SeqsUpTo(DiffKinds, MaxScript)
    /\ nserved = 0
    /\ ncalls = 0
    /\ cu = [c \in Calls |-> IdleCall]

CatchUpNext ==
    \E c \in Calls :
        \/ CatchUpCall(c) /\ UNCHANGED <<dVars, rVars, lVars, xVars>>
        \/ CatchUpGetStateReply(c) /\ UNCHANGED <<dVars, rVars, lVars, xVars>>
        \/ CatchUpInvokeFails(c) /\ UNCHANGED <<dVars, rVars, lVars, xVars>>
        \/ CatchUpEmpty(c) /\ UNCHANGED <<dVars, rVars, lVars, xVars>>
        \/ CatchUpTooLong(c) /\ UNCHANGED <<dVars, rVars, lVars, xVars>>
        \/ CatchUpProcess(c) /\ UNCHANGED <<dVars, rVars, lVars, xVars>>
        \/ CatchUpAdopt(c) /\ UNCHANGED <<dVars, rVars, lVars, xVars>>

(***************************************************************************)
(* ------------- the handler registry, _handleUpdate, dispatch ----------- *)
(***************************************************************************)
\* the activity that is running: NoOne between activities, HandleUpdateId while
\* _handleUpdate runs, or the slot of the dispatch round that runs
NoOne == 0
HandleUpdateId == 0 - 1

\* builder objects and callbacks the application holds
Builders == {1, 2}
Callbacks == {1, 2}
Pairs == { << b, f >> : b \in Builders, f \in Callbacks }
\* addEventHandler without an event makes a new Raw builder: line 140
RawBuilder(n) == 10 + n
Undefined == 0

\* The model follows at most two _dispatchUpdate calls at a time; a call that
\* has ended leaves its slot to the next one.
Slots == {1, 2}

\* a slot without a round
FreeRound ==
    [pc |-> "free", i |-> 0, view |-> << >>, nstart |-> 0, live |-> FALSE,
     last |-> "none", conn |-> FALSE, left |-> 0]

\* a round that has ended: how it ended, what its last callback threw, and
\* left, the number of pairs of its array that it has not visited
EndRound(rd, how) ==
    [FreeRound EXCEPT !.pc = how, !.last = rd.last,
                      !.left = IF rd.i > Len(rd.view) THEN 0 ELSE Len(rd.view) - rd.i]

\* the round of this slot has ended (or there was none)
Ended(rd) == rd.pc \in {"free", "done", "stopped", "rejected"}

FreeSlots == { r \in Slots : Ended(rounds[r]) }

\* lost: how many of its updates the last _handleUpdate call never handed on
\* signal: the number given, if one was; entities: the stores that were given
\* the update, in order
IdleHandleUpdate ==
    [active |-> FALSE, inner |-> << >>, k |-> 0, lost |-> 0, signal |-> 0,
     entities |-> << >>]

\* whose turn it is when a round suspends: _handleUpdate's loop if the round
\* was started by it and it has not finished, else nobody's
Yield == IF hu.active THEN HandleUpdateId ELSE NoOne

\* client._eventBuilders.push([event, callback]): line 143
Pushed(reg, callback, event) == Append(reg, << event, callback >>)

\* a filter that drops an item only if both members match
Filtered_BothMustMatch(reg, callback, event) ==
    SelectSeq(reg, LAMBDA item : item[1] # event \/ item[2] # callback)

\* client._eventBuilders.filter(item => item[0] !== event && item[1] !== callback):
\* lines 152-154
Filtered(reg, callback, event) ==
    SelectSeq(reg, LAMBDA item : item[1] # event /\ item[2] # callback)

\* addEventHandler: lines 132-144.  push changes the array in place, so a round
\* that iterates this array sees the new item.
AddEventHandler(callback, event) ==
    /\ cur = NoOne
    /\ event = Undefined => nraw < MaxRaw
    /\ nraw' = IF event = Undefined THEN nraw + 1 ELSE nraw
    /\ LET builder == IF event = Undefined THEN RawBuilder(nraw) ELSE event
       IN  /\ eventBuilders' = Pushed(eventBuilders, callback, builder)
           /\ rounds' = [r \in Slots |->
                           IF rounds[r].live
                           THEN [rounds[r] EXCEPT !.view = Pushed(@, callback, builder)]
                           ELSE rounds[r]]
    /\ UNCHANGED <<cur, hu, resolved, selfPeer, errorHandlerSet>>

\* removeEventHandler: lines 147-155.  filter makes a new array; the rounds in
\* progress keep iterating the old one, which nothing changes any more.
RemoveEventHandler(callback, event) ==
    /\ cur = NoOne
    /\ eventBuilders' = Filtered(eventBuilders, callback, event)
    /\ rounds' = [r \in Slots |-> [rounds[r] EXCEPT !.live = FALSE]]
    /\ UNCHANGED <<nraw, cur, hu, resolved, selfPeer, errorHandlerSet>>

\* the connection signals _handleUpdate takes: line 283
ConnectionSignals == {0 - 1, 0, 1}

\* new UpdateConnectionState(update): line 285
UpdateConnectionState(n) ==
    CASE n = 0 - 1 -> "disconnected"
      [] n = 0 -> "broken"
      [] n = 1 -> "connected"

\* What is given to _handleUpdate: a connection signal, or a decoded update.
\* inner: the updates _handleUpdate hands on for a decoded update, one by one:
\* a container gives its inner updates; an UpdateShort gives update.update;
\* anything else is handed on itself.  "bad" is an update to which no property
\* can be attached (null, frozen).
HandleUpdateInputs ==
    { [kind |-> "signal", signal |-> n, inner |-> << >>] : n \in ConnectionSignals }
    \cup { [kind |-> k, signal |-> 0, inner |-> << u >>] :
              k \in {"short", "single"}, u \in {"ok", "bad"} }
    \cup { [kind |-> "container", signal |-> 0, inner |-> us] :
              us \in SeqsUpTo({"ok", "bad"}, Cardinality(Slots)) }

\* the entity stores are given the connection signal as well
HandleUpdate_EntitiesAlways(input, entitiesFail) ==
    /\ cur = NoOne
    /\ Cardinality(FreeSlots) >= IF input.kind = "signal" THEN 1 ELSE Len(input.inner)
    /\ hu' = [IdleHandleUpdate EXCEPT
                !.active = TRUE,
                !.signal = input.signal,
                !.inner = IF input.kind = "signal"
                          THEN << UpdateConnectionState(input.signal) >>
                          ELSE input.inner,
                !.entities = << "cache", "session" >>]
    /\ cur' = HandleUpdateId
    /\ UNCHANGED <<eventBuilders, rounds, nraw, resolved, selfPeer, errorHandlerSet>>

\* _handleUpdate up to its first _processUpdate or _dispatchUpdate: lines
\* 277-307.  A signal is wrapped and goes to dispatch at once; a decoded update
\* is first given to client._entityCache.add and session.processEntities.
\* entitiesFail: one of the two throws
HandleUpdate(input, entitiesFail) ==
    /\ cur = NoOne
    /\ Cardinality(FreeSlots) >= IF input.kind = "signal" THEN 1 ELSE Len(input.inner)
    /\ IF input.kind = "signal"
       THEN /\ hu' = [IdleHandleUpdate EXCEPT
                       !.active = TRUE,
                       !.signal = input.signal,
                       !.inner = << UpdateConnectionState(input.signal) >>]
            /\ cur' = HandleUpdateId
       ELSE IF entitiesFail
       THEN /\ hu' = IdleHandleUpdate
            /\ cur' = NoOne
       ELSE /\ hu' = [IdleHandleUpdate EXCEPT
                       !.active = TRUE,
                       !.inner = input.inner,
                       !.entities = << "cache", "session" >>]
            /\ cur' = HandleUpdateId
    /\ UNCHANGED <<eventBuilders, rounds, nraw, resolved, selfPeer, errorHandlerSet>>

\* update._entities = ... throws inside _processUpdate (line 328): the
\* exception leaves the for loop and is caught at line 316; the updates after
\* the failing one are not handed on
AfterAttachFailure(h) ==
    [IdleHandleUpdate EXCEPT !.lost = Len(h.inner) - (h.k + 1)]

\* the round that _dispatchUpdate begins for an update: it iterates
\* client._eventBuilders itself (line 344), not a copy
NewRound(update) ==
    [FreeRound EXCEPT !.pc = "top", !.i = 1, !.view = eventBuilders,
                      !.nstart = Len(eventBuilders), !.live = TRUE,
                      !.conn = (update \in {UpdateConnectionState(n) : n \in ConnectionSignals})]

\* the next _processUpdate of _handleUpdate: lines 308-315, 322-337.
\* _dispatchUpdate is entered at once and runs to its first await.
HandleUpdateNext ==
    /\ cur = HandleUpdateId
    /\ IF hu.k = Len(hu.inner)
       THEN /\ hu' = IdleHandleUpdate
            /\ cur' = NoOne
            /\ UNCHANGED rounds
       ELSE IF hu.inner[hu.k + 1] = "bad"
       THEN /\ hu' = AfterAttachFailure(hu)
            /\ cur' = NoOne
            /\ UNCHANGED rounds
       ELSE LET r == CHOOSE q \in FreeSlots : \A p \in FreeSlots : q <= p
            IN  /\ hu' = [hu EXCEPT !.k = @ + 1]
                /\ rounds' = [rounds EXCEPT ![r] = NewRound(hu.inner[hu.k + 1])]
                /\ cur' = r
    /\ UNCHANGED <<eventBuilders, nraw, resolved, selfPeer, errorHandlerSet>>

\* the round goes to the next item of the array
NextItem(rd) == [rd EXCEPT !.pc = "top", !.i = @ + 1, !.last = "none"]

\* what follows a resolved builder: getMe if the client does not know itself
\* (lines 356-364), else build
AfterResolve(rd, knowsSelf) ==
    IF knowsSelf THEN [rd EXCEPT !.pc = "build"] ELSE [rd EXCEPT !.pc = "getme"]

\* the head of the for loop: lines 344-351
RoundTop(r) ==
    /\ cur = r
    /\ rounds[r].pc = "top"
    /\ LET rd == rounds[r]
       IN  IF rd.i > Len(rd.view)
           THEN /\ rounds' = [rounds EXCEPT ![r] = EndRound(rd, "done")]
                /\ cur' = Yield
           ELSE IF rd.view[rd.i][1] \notin resolved
           THEN /\ rounds' = [rounds EXCEPT ![r].pc = "resolve"]
                /\ cur' = Yield
           ELSE /\ rounds' = [rounds EXCEPT ![r] = AfterResolve(rd, selfPeer)]
                /\ cur' = IF rounds'[r].pc = "getme" THEN Yield ELSE r
    /\ UNCHANGED <<eventBuilders, nraw, hu, resolved, selfPeer, errorHandlerSet>>

\* await builder.resolve(client) ends: lines 349-355
RoundResolved(r, ok) ==
    /\ cur = NoOne
    /\ rounds[r].pc = "resolve"
    /\ IF ok
       THEN /\ resolved' = resolved \cup {rounds[r].view[rounds[r].i][1]}
            /\ rounds' = [rounds EXCEPT ![r] = AfterResolve(@, selfPeer)]
            /\ cur' = IF rounds'[r].pc = "getme" THEN NoOne ELSE r
       ELSE /\ resolved' = resolved
            /\ rounds' = [rounds EXCEPT ![r] = NextItem(@)]
            /\ cur' = r
    /\ UNCHANGED <<eventBuilders, nraw, hu, selfPeer, errorHandlerSet>>

\* await client.getMe(true) ends; a failure is ignored: lines 358-364
RoundGotMe(r, ok) ==
    /\ cur = NoOne
    /\ rounds[r].pc = "getme"
    /\ selfPeer' = (selfPeer \/ ok)
    /\ rounds' = [rounds EXCEPT ![r].pc = "build"]
    /\ cur' = r
    /\ UNCHANGED <<eventBuilders, nraw, hu, resolved, errorHandlerSet>>

\* builder.build and the call of builder.filter: lines 369-391.
\* last: the value of the round's local variables event, then filter, then
\* what the callback threw, until the round moves on
RoundBuild(r, built) ==
    /\ cur = r
    /\ rounds[r].pc = "build"
    /\ IF built = "event"
       THEN /\ rounds' = [rounds EXCEPT ![r].pc = "filter", ![r].last = built]
            /\ cur' = Yield
       ELSE /\ rounds' = [rounds EXCEPT ![r] = NextItem(@)]
            /\ cur' = r
    /\ UNCHANGED <<eventBuilders, nraw, hu, resolved, selfPeer, errorHandlerSet>>

\* the test of line 396 left out: the callback is called whatever the filter
\* returns
RoundFiltered_NoTest(r, verdict) ==
    /\ cur = NoOne
    /\ rounds[r].pc = "filter"
    /\ IF verdict # "throws"
       THEN /\ rounds' = [rounds EXCEPT ![r].pc = "callback", ![r].last = verdict]
            /\ cur' = NoOne
       ELSE /\ rounds' = [rounds EXCEPT ![r] = NextItem(@)]
            /\ cur' = r
    /\ UNCHANGED <<eventBuilders, nraw, hu, resolved, selfPeer, errorHandlerSet>>

\* await builder.filter(event) ends, and the callback is called: lines 391-400
RoundFiltered(r, verdict) ==
    /\ cur = NoOne
    /\ rounds[r].pc = "filter"
    /\ IF verdict = "accept"
       THEN /\ rounds' = [rounds EXCEPT ![r].pc = "callback", ![r].last = verdict]
            /\ cur' = NoOne
       ELSE /\ rounds' = [rounds EXCEPT ![r] = NextItem(@)]
            /\ cur' = r
    /\ UNCHANGED <<eventBuilders, nraw, hu, resolved, selfPeer, errorHandlerSet>>

\* a StopPropagation handled like any other error of a callback
AfterCallback_StopIsAnError(rd, outcome, handlerSet) ==
    CASE outcome = "ok" -> NextItem(rd)
      [] handlerSet -> [rd EXCEPT !.pc = "errh", !.last = outcome]
      [] OTHER -> NextItem(rd)

\* await callback(event) ends: lines 399-409.  StopPropagation leaves the
\* loop; another error goes to client._errorHandler if there is one.
\* last: what the callback threw, until the round moves on
AfterCallback(rd, outcome, handlerSet) ==
    CASE outcome = "ok" -> NextItem(rd)
      [] outcome = "stop" ->
            EndRound([rd EXCEPT !.last = outcome], "stopped")
      [] handlerSet -> [rd EXCEPT !.pc = "errh", !.last = outcome]
      [] OTHER -> NextItem(rd)

RoundCallbackDone(r, outcome) ==
    /\ cur = NoOne
    /\ rounds[r].pc = "callback"
    /\ rounds' = [rounds EXCEPT ![r] = AfterCallback(@, outcome, errorHandlerSet)]
    /\ cur' = IF rounds'[r].pc = "top" THEN r ELSE NoOne
    /\ UNCHANGED <<eventBuilders, nraw, hu, resolved, selfPeer, errorHandlerSet>>

\* await client._errorHandler(e) ends: lines 405-408.  The call is inside the
\* catch block: if the handler throws, the exception leaves _dispatchUpdate and
\* its promise rejects (logged by the .catch of line 334).
AfterErrorHandler(rd, outcome) ==
    IF outcome = "ok" THEN NextItem(rd)
    ELSE EndRound(rd, "rejected")

RoundErrorHandlerDone(r, outcome) ==
    /\ cur = NoOne
    /\ rounds[r].pc = "errh"
    /\ rounds' = [rounds EXCEPT ![r] = AfterErrorHandler(@, outcome)]
    /\ cur' = IF rounds'[r].pc = "top" THEN r ELSE NoOne
    /\ UNCHANGED <<eventBuilders, nraw, hu, resolved, selfPeer, errorHandlerSet>>

\* no handler registered, no update received yet
DispatchIdle ==
    /\ eventBuilders = << >>
    /\ rounds = [r \in Slots |-> FreeRound]
    /\ nraw = 0
    /\ cur = NoOne
    /\ hu = IdleHandleUpdate
    /\ resolved = {}
    /\ selfPeer = FALSE
    /\ errorHandlerSet = FALSE

DispatchInit ==
    /\ eventBuilders = << >>
    /\ rounds = [r \in Slots |-> FreeRound]
    /\ nraw = 0
    /\ cur = NoOne
    /\ hu = IdleHandleUpdate
    /\ resolved = {}
    /\ selfPeer = FALSE
    /\ errorHandlerSet \in BOOLEAN

\* While updates are dispatched the application registers and removes one
\* handler, (builder 1, callback 1), any number of times: a round does not
\* look at which callback a pair holds.
DispatchNext ==
    \/ Len(eventBuilders) < MaxHandlers /\ AddEventHandler(1, 1) /\ UNCHANGED <<cuVars, rVars, lVars, xVars>>
    \/ RemoveEventHandler(1, 1) /\ UNCHANGED <<cuVars, rVars, lVars, xVars>>
    \/ \E input \in HandleUpdateInputs, entitiesFail \in BOOLEAN :
          HandleUpdate(input, entitiesFail) /\ UNCHANGED <<cuVars, rVars, lVars, xVars>>
    \/ HandleUpdateNext /\ UNCHANGED <<cuVars, rVars, lVars, xVars>>
    \/ \E r \in Slots :
          \/ RoundTop(r) /\ UNCHANGED <<cuVars, rVars, lVars, xVars>>
          \/ \E ok \in BOOLEAN : RoundResolved(r, ok) /\ UNCHANGED <<cuVars, rVars, lVars, xVars>>
          \/ \E ok \in BOOLEAN : RoundGotMe(r, ok) /\ UNCHANGED <<cuVars, rVars, lVars, xVars>>
          \/ \E built \in {"event", "undefined", "throws"} :
                RoundBuild(r, built) /\ UNCHANGED <<cuVars, rVars, lVars, xVars>>
          \/ \E verdict \in {"accept", "reject", "throws"} :
                RoundFiltered(r, verdict) /\ UNCHANGED <<cuVars, rVars, lVars, xVars>>
          \/ \E outcome \in {"ok", "stop", "error"} :
                RoundCallbackDone(r, outcome) /\ UNCHANGED <<cuVars, rVars, lVars, xVars>>
          \/ \E outcome \in {"ok", "throws"} :
                RoundErrorHandlerDone(r, outcome) /\ UNCHANGED <<cuVars, rVars, lVars, xVars>>

\* One container is handed to _handleUpdate, once: its first inner update gets
\* the round of slot 1 and its second the round of slot 2.  No handler is
\* registered or removed meanwhile.
ContainerNext ==
    \/ \E input \in HandleUpdateInputs, entitiesFail \in BOOLEAN :
          /\ input.kind = "container"
          /\ \A r \in Slots : rounds[r].pc = "free"
          /\ HandleUpdate(input, entitiesFail)
          /\ UNCHANGED <<cuVars, rVars, lVars, xVars>>
    \/ HandleUpdateNext /\ UNCHANGED <<cuVars, rVars, lVars, xVars>>
    \/ \E r \in Slots :
          \/ RoundTop(r) /\ UNCHANGED <<cuVars, rVars, lVars, xVars>>
          \/ \E ok \in BOOLEAN : RoundGotMe(r, ok) /\ UNCHANGED <<cuVars, rVars, lVars, xVars>>
          \/ \E built \in {"event", "undefined", "throws"} :
                RoundBuild(r, built) /\ UNCHANGED <<cuVars, rVars, lVars, xVars>>
          \/ \E verdict \in {"accept", "reject", "throws"} :
                RoundFiltered(r, verdict) /\ UNCHANGED <<cuVars, rVars, lVars, xVars>>
          \/ \E outcome \in {"ok", "stop", "error"} :
                RoundCallbackDone(r, outcome) /\ UNCHANGED <<cuVars, rVars, lVars, xVars>>
          \/ \E outcome \in {"ok", "throws"} :
                RoundErrorHandlerDone(r, outcome) /\ UNCHANGED <<cuVars, rVars, lVars, xVars>>

\* a synced client on which catchUp is not called
CatchUpIdle ==
    /\ updateState = SyncedState
    /\ script = << >>
    /\ nserved = 0
    /\ ncalls = 0
    /\ cu = [c \in Calls |-> IdleCall]

(***************************************************************************)
(* ------------------ the registry used on its own ----------------------- *)
(***************************************************************************)
\* no addEventHandler / removeEventHandler call was made
NoRegistryCall ==
    [op |-> "none", callback |-> Undefined, event |-> Undefined, before |-> << >>]

RegistryIdle == regLast = NoRegistryCall

\* the application calls addEventHandler(callback, event) or
\* addEventHandler(callback) while no update is dispatched
RegistryAdd(callback, event) ==
    /\ Len(eventBuilders) < MaxRegistry
    /\ AddEventHandler(callback, event)
    /\ regLast' = [op |-> "add", callback |-> callback, event |-> event,
                   before |-> eventBuilders]
    /\ UNCHANGED <<cuVars, lVars, xVars>>

\* the application calls removeEventHandler(callback, event)
RegistryRemove(callback, event) ==
    /\ RemoveEventHandler(callback, event)
    /\ regLast' = [op |-> "remove", callback |-> callback, event |-> event,
                   before |-> eventBuilders]
    /\ UNCHANGED <<cuVars, lVars, xVars>>

RegistryNext ==
    \/ \E f \in Callbacks, e \in Builders \cup {Undefined} : RegistryAdd(f, e)
    \/ \E f \in Callbacks, e \in Builders \cup {RawBuilder(0)} : RegistryRemove(f, e)

(***************************************************************************)
(* ------------------------- _updateLoop --------------------------------- *)
(***************************************************************************)
\* milliseconds: lines 104-114
PING_INTERVAL == 9000
PING_TIMEOUT == 10000
PING_FAIL_ATTEMPTS == 3
PING_FAIL_INTERVAL == 100
PING_INTERVAL_TO_WAKE_UP == 5000
PING_WAKE_UP_TIMEOUT == 3000
PING_WAKE_UP_WARNING_TIMEOUT == 1000

\* lastPongAt is undefined
NoTime == 0 - 1

\* the loop before its first tick.  now: Date.now() as the loop last saw it,
\* counted from the call of _updateLoop; lastPongAt: a time or NoTime;
\* i: the attempt of attempts(); sent: the probes sent since the last sleep
\* returned; warn: a warning timer is pending; decision: what the last tick
\* decided; asked: sender.reconnect() was called since the last sleep returned;
\* started: client._loopStarted; err: what the last failed probe of the tick
\* threw, as long as a catch block holds it; stale: whether more than 30
\* minutes had passed since client._lastRequest when the try block or the
\* error handler of the tick ended
NewLoop ==
    [pc |-> "sleep", now |-> 0, lastPongAt |-> NoTime, i |-> 0, sent |-> 0,
     warn |-> FALSE, decision |-> "none", asked |-> FALSE, started |-> TRUE,
     err |-> "none", stale |-> FALSE]

\* the checks of a tick with the reconnecting check after the disconnected one
TickDecision_DisconnectedFirst(d, reconnecting, switching, disc) ==
    IF d THEN "exit"
    ELSE IF disc THEN "exit"
    ELSE IF reconnecting \/ switching THEN "skip"
    ELSE "probe"

\* the checks of a tick, in the order of lines 436-444
TickDecision(d, reconnecting, switching, disc) ==
    IF d THEN "exit"
    ELSE IF reconnecting \/ switching THEN "skip"
    ELSE IF disc THEN "exit"
    ELSE "probe"

\* lines 461-464: which way the probe is sent
LastInterval(lastPongAt, pingAt) ==
    IF lastPongAt = NoTime THEN NoTime ELSE pingAt - lastPongAt

PingPath(lastInterval) ==
    IF lastInterval = NoTime \/ lastInterval = 0
       \/ lastInterval < PING_INTERVAL_TO_WAKE_UP
    THEN "attempts"
    ELSE "wakeup"

\* after the while loop: lines 534-539
ExitLoop(lp, d) ==
    [lp EXCEPT !.pc = IF d THEN "closing" ELSE "exited", !.started = FALSE]

\* the loop condition and the sleep that begins an iteration: lines 434-435
LoopTop(lp, d) == IF d THEN ExitLoop(lp, d) ELSE [lp EXCEPT !.pc = "sleep"]

\* the end of an iteration: lines 517-519; stale: more than 30 minutes have
\* passed since client._lastRequest
AfterTry(lp, stale, d) ==
    IF stale THEN [lp EXCEPT !.pc = "refresh"] ELSE LoopTop(lp, d)

\* the catch block after the error handler: lines 495-510
CatchRest(lp, stale, d, reconnecting, switching, disc) ==
    LET cleared == [lp EXCEPT !.lastPongAt = NoTime, !.err = "none"]
    IN  IF d THEN ExitLoop(cleared, d)
        ELSE IF reconnecting \/ switching THEN LoopTop(cleared, d)
        ELSE IF disc THEN ExitLoop(cleared, d)
        ELSE AfterTry([cleared EXCEPT !.asked = TRUE], stale, d)

\* the head of the catch block: lines 491-494
Catch(lp, handlerSet, stale, d, reconnecting, switching, disc) ==
    IF handlerSet THEN [lp EXCEPT !.pc = "errh"]
    ELSE CatchRest(lp, stale, d, reconnecting, switching, disc)

\* _handleUpdate(client, signal) when no handler is registered: the round of
\* _dispatchUpdate ends at once (lines 282-290, 344)
SignalRound(n) == EndRound(NewRound(UpdateConnectionState(n)), "done")

\* attempts() that throws the error of its first failed attempt
Elapsed_FirstError(lp, outcome, ms) ==
    [lp EXCEPT !.now = IF outcome = "timeout" THEN @ + ms ELSE @,
               !.err = IF lp.err = "none" THEN outcome ELSE lp.err]

\* a probe that fails: the catch block holds what it threw (lines 548, 491); a
\* probe that ends by TIMEOUT has taken the time of its timer (lines 560-571)
Elapsed(lp, outcome, ms) ==
    [lp EXCEPT !.now = IF outcome = "timeout" THEN @ + ms ELSE @,
               !.err = outcome]

\* the GetState of lines 418-431 answers or fails
LoopGotInitialState(ok) ==
    /\ loop.pc = "init"
    /\ updateState' = IF ok THEN ServerState ELSE updateState
    /\ loop' = LoopTop(loop, destroyed)
    /\ UNCHANGED <<script, nserved, ncalls, cu, dVars, rVars, xVars, destroyed,
                   isReconnecting, isSwitchingDc, disconnected, nticks, lastSignal>>

\* sleep(PING_INTERVAL) returns: the checks of the tick and, if they pass, the
\* first probe: lines 436-480.  A warning timer set earlier is due before the
\* sleep ends, so it has fired.
LoopTick ==
    /\ loop.pc = "sleep"
    /\ PING_WAKE_UP_WARNING_TIMEOUT < PING_INTERVAL => ~loop.warn
    /\ nticks < MaxTicks
    /\ nticks' = nticks + 1
    /\ LET decision == TickDecision(destroyed, isReconnecting, isSwitchingDc, disconnected)
           woken == [loop EXCEPT
                       !.now = @ + PING_INTERVAL,
                       !.i = 0, !.sent = 0, !.asked = FALSE, !.decision = decision,
                       !.stale = FALSE]
       IN  loop' =
             CASE decision = "exit" -> ExitLoop(woken, destroyed)
               [] decision = "skip" -> LoopTop([woken EXCEPT !.lastPongAt = NoTime], destroyed)
               [] OTHER ->
                    IF PingPath(LastInterval(woken.lastPongAt, woken.now)) = "attempts"
                    THEN [woken EXCEPT !.pc = "probe", !.sent = 1]
                    ELSE [woken EXCEPT !.pc = "wake", !.sent = 1, !.warn = TRUE]
    /\ UNCHANGED <<cuVars, dVars, rVars, xVars, destroyed, isReconnecting, isSwitchingDc,
                   disconnected, lastSignal>>

\* timeout(ping, PING_TIMEOUT) settles inside attempts(): lines 465-469, 543-557
LoopProbeDone(outcome, stale) ==
    /\ loop.pc = "probe"
    /\ loop' =
         IF outcome = "pong"
         THEN AfterTry([loop EXCEPT !.lastPongAt = loop.now, !.err = "none",
                                    !.stale = stale],
                       stale, destroyed)
         ELSE IF loop.i = PING_FAIL_ATTEMPTS - 1
         THEN Catch([Elapsed(loop, outcome, PING_TIMEOUT) EXCEPT !.stale = stale],
                    errorHandlerSet, stale, destroyed, isReconnecting,
                    isSwitchingDc, disconnected)
         ELSE [Elapsed(loop, outcome, PING_TIMEOUT) EXCEPT !.pc = "pause"]
    /\ UNCHANGED <<cuVars, dVars, rVars, xVars, destroyed, isReconnecting, isSwitchingDc,
                   disconnected, nticks, lastSignal>>

\* sleep(PING_FAIL_INTERVAL) returns and the next probe is sent: lines 544-553
LoopPauseDone ==
    /\ loop.pc = "pause"
    /\ loop' = [loop EXCEPT !.pc = "probe", !.i = @ + 1, !.sent = @ + 1,
                             !.now = @ + PING_FAIL_INTERVAL]
    /\ UNCHANGED <<cuVars, dVars, rVars, xVars, destroyed, isReconnecting, isSwitchingDc,
                   disconnected, nticks, lastSignal>>

\* the warning timer fires: lines 472-478
LoopWarn ==
    /\ loop.warn
    /\ eventBuilders = << >> /\ cur = NoOne
    /\ loop' = [loop EXCEPT !.warn = FALSE]
    /\ lastSignal' = UpdateConnectionState(0 - 1)
    /\ rounds' = [rounds EXCEPT ![1] = SignalRound(0 - 1)]
    /\ UNCHANGED <<cuVars, rVars, xVars, eventBuilders, nraw, cur, hu, resolved, selfPeer,
                   errorHandlerSet, destroyed, isReconnecting, isSwitchingDc,
                   disconnected, nticks>>

\* timeout(ping, PING_WAKE_UP_TIMEOUT) settles: lines 480-490.  The timeout is
\* due after the warning timer, so the warning has fired when it expires.
LoopWakeDone(outcome, stale) ==
    /\ loop.pc = "wake"
    /\ (outcome = "timeout" /\ PING_WAKE_UP_WARNING_TIMEOUT < PING_WAKE_UP_TIMEOUT)
          => ~loop.warn
    /\ eventBuilders = << >> /\ cur = NoOne
    /\ IF outcome = "pong"
       THEN /\ loop' = AfterTry([loop EXCEPT !.warn = FALSE, !.lastPongAt = loop.now,
                                             !.stale = stale],
                                stale, destroyed)
            /\ lastSignal' = UpdateConnectionState(1)
            /\ rounds' = [rounds EXCEPT ![1] = SignalRound(1)]
       ELSE /\ loop' = Catch([Elapsed(loop, outcome, PING_WAKE_UP_TIMEOUT)
                                 EXCEPT !.stale = stale],
                             errorHandlerSet, stale, destroyed, isReconnecting,
                             isSwitchingDc, disconnected)
            /\ UNCHANGED <<lastSignal, rounds>>
    /\ UNCHANGED <<cuVars, rVars, xVars, eventBuilders, nraw, cur, hu, resolved, selfPeer,
                   errorHandlerSet, destroyed, isReconnecting, isSwitchingDc,
                   disconnected, nticks>>

\* await client._errorHandler(err) ends: lines 492-494.  If the handler throws,
\* the exception leaves _updateLoop.
LoopErrorHandlerDone(outcome, stale) ==
    /\ loop.pc = "errh"
    /\ loop' =
         IF outcome = "ok"
         THEN CatchRest([loop EXCEPT !.stale = stale], stale, destroyed,
                        isReconnecting, isSwitchingDc, disconnected)
         ELSE [loop EXCEPT !.pc = "crashed"]
    /\ UNCHANGED <<cuVars, dVars, rVars, xVars, destroyed, isReconnecting, isSwitchingDc,
                   disconnected, nticks, lastSignal>>

\* the GetState of the 30-minute refresh answers or fails: lines 518-532
LoopRefreshDone(ok) ==
    /\ loop.pc = "refresh"
    /\ updateState' = IF ok /\ updateState # NoState THEN ServerState ELSE updateState
    /\ loop' = LoopTop([loop EXCEPT !.lastPongAt = NoTime], destroyed)
    /\ UNCHANGED <<script, nserved, ncalls, cu, dVars, rVars, xVars, destroyed,
                   isReconnecting, isSwitchingDc, disconnected, nticks, lastSignal>>

\* await client.disconnect() ends: lines 537-539
LoopClosed(ok) ==
    /\ loop.pc = "closing"
    /\ loop' = [loop EXCEPT !.pc = IF ok THEN "exited" ELSE "crashed"]
    /\ UNCHANGED <<cuVars, dVars, rVars, xVars, destroyed, isReconnecting, isSwitchingDc,
                   disconnected, nticks, lastSignal>>

\* the rest of the client, between two segments of the loop
ClientDestroyed ==
    /\ ~destroyed
    /\ destroyed' = TRUE
    /\ UNCHANGED <<cuVars, dVars, rVars, xVars, isReconnecting, isSwitchingDc,
                   disconnected, loop, nticks, lastSignal>>

SenderReconnecting(b) ==
    /\ isReconnecting # b
    /\ isReconnecting' = b
    /\ UNCHANGED <<cuVars, dVars, rVars, xVars, destroyed, isSwitchingDc,
                   disconnected, loop, nticks, lastSignal>>

ClientSwitchingDc(b) ==
    /\ isSwitchingDc # b
    /\ isSwitchingDc' = b
    /\ UNCHANGED <<cuVars, dVars, rVars, xVars, destroyed, isReconnecting,
                   disconnected, loop, nticks, lastSignal>>

ClientDisconnected(b) ==
    /\ disconnected # b
    /\ disconnected' = b
    /\ UNCHANGED <<cuVars, dVars, rVars, xVars, destroyed, isReconnecting,
                   isSwitchingDc, loop, nticks, lastSignal>>

\* _updateLoop is not running
LoopIdle ==
    /\ destroyed = FALSE
    /\ isReconnecting = FALSE
    /\ isSwitchingDc = FALSE
    /\ disconnected = FALSE
    /\ loop = [NewLoop EXCEPT !.pc = "exited", !.started = FALSE]
    /\ nticks = 0
    /\ lastSignal = "none"

\* _updateLoop has been called on a connected client: lines 416-435
LoopInit ==
    /\ updateState \in {NoState, SyncedState}
    /\ script = << >>
    /\ nserved = 0
    /\ ncalls = 0
    /\ cu = [c \in Calls |-> IdleCall]
    /\ destroyed = FALSE
    /\ isReconnecting = FALSE
    /\ isSwitchingDc = FALSE
    /\ disconnected = FALSE
    /\ loop = [NewLoop EXCEPT !.pc = IF updateState = NoState THEN "init" ELSE "sleep"]
    /\ nticks = 0
    /\ lastSignal = "none"

LoopNext ==
    \/ \E ok \in BOOLEAN : LoopGotInitialState(ok)
    \/ LoopTick
    \/ \E outcome \in {"pong", "error", "timeout"}, stale \in BOOLEAN :
          LoopProbeDone(outcome, stale)
    \/ LoopPauseDone
    \/ LoopWarn
    \/ \E outcome \in {"pong", "error", "timeout"}, stale \in BOOLEAN :
          LoopWakeDone(outcome, stale)
    \/ \E outcome \in {"ok", "throws"}, stale \in BOOLEAN :
          LoopErrorHandlerDone(outcome, stale)
    \/ \E ok \in BOOLEAN : LoopRefreshDone(ok)
    \/ \E ok \in BOOLEAN : LoopClosed(ok)
    \/ ClientDestroyed
    \/ \E b \in BOOLEAN : SenderReconnecting(b)
    \/ \E b \in BOOLEAN : ClientSwitchingDc(b)
    \/ \E b \in BOOLEAN : ClientDisconnected(b)

(***************************************************************************)
(* ------------------ text and 32-bit numbers ---------------------------- *)
(* A text is a sequence of one-character strings.  A 32-bit number is a    *)
(* record [hi, lo] of its two 16-bit halves.                               *)
(***************************************************************************)
LowerCase ==
    <<"a", "b", "c", "d", "e", "f", "g", "h", "i", "j", "k", "l", "m",
      "n", "o", "p", "q", "r", "s", "t", "u", "v", "w", "x", "y", "z">>
UpperCase ==
    <<"A", "B", "C", "D", "E", "F", "G", "H", "I", "J", "K", "L", "M",
      "N", "O", "P", "Q", "R", "S", "T", "U", "V", "W", "X", "Y", "Z">>
Digits == <<"0", "1", "2", "3", "4", "5", "6", "7", "8", "9">>

Range(q) == { q[n] : n \in DOMAIN q }
IndexIn(q, c) == CHOOSE n \in DOMAIN q : q[n] = c

\* the characters of \w, of \d and of \s (those of \s that the schemas use)
WordCharacters == Range(LowerCase) \cup Range(UpperCase) \cup Range(Digits) \cup {"_"}
DigitCharacters == Range(Digits)
WhiteSpace == {" ", "\t"}

\* the byte Buffer.from(text, "utf8") gives for a character
Utf8(c) ==
    LET Punctuation ==
          [d \in {" ", "!", "#", "-", ".", ":", ";", "<", "=", ">", "?", "_", "{", "}"} |->
              CASE d = " " -> 32 [] d = "!" -> 33 [] d = "#" -> 35 [] d = "-" -> 45
                [] d = "." -> 46 [] d = ":" -> 58 [] d = ";" -> 59 [] d = "<" -> 60
                [] d = "=" -> 61 [] d = ">" -> 62 [] d = "?" -> 63 [] d = "_" -> 95
                [] d = "{" -> 123 [] d = "}" -> 125]
    IN  IF c \in Range(LowerCase) THEN 96 + IndexIn(LowerCase, c)
        ELSE IF c \in Range(UpperCase) THEN 64 + IndexIn(UpperCase, c)
        ELSE IF c \in Range(Digits) THEN 47 + IndexIn(Digits, c)
        ELSE Punctuation[c]

ToUpperCase(c) ==
    IF c \in Range(LowerCase) THEN UpperCase[IndexIn(LowerCase, c)] ELSE c

Word32(hi, lo) == [hi |-> hi, lo |-> lo]

\* a ^ b on numbers below 2^16, bit by bit
Xor16(a, b) ==
    LET XorBit(k) == (((a \div (2 ^ k)) + (b \div (2 ^ k))) % 2) * (2 ^ k)
    IN  XorBit(0) + XorBit(1) + XorBit(2) + XorBit(3) + XorBit(4) + XorBit(5)
        + XorBit(6) + XorBit(7) + XorBit(8) + XorBit(9) + XorBit(10) + XorBit(11)
        + XorBit(12) + XorBit(13) + XorBit(14) + XorBit(15)

Xor32(a, b) == Word32(Xor16(a.hi, b.hi), Xor16(a.lo, b.lo))

\* w >>> n for n below 16
ShiftRight(w, n) ==
    Word32(w.hi \div (2 ^ n), (w.lo \div (2 ^ n)) + (w.hi % (2 ^ n)) * (2 ^ (16 - n)))

\* 0xedb88320: crc32.ts line 8
CrcPolynomial == Word32(60856, 33568)

\* makeCrcTable: crc32.ts lines 3-13
CrcTable ==
    [n \in 0 .. 255 |->
        LET Shift(c) ==
              IF c.lo % 2 # 0 THEN Xor32(CrcPolynomial, ShiftRight(c, 1))
              ELSE ShiftRight(c, 1)
            c[k \in 0 .. 8] == IF k = 0 THEN Word32(0, n) ELSE Shift(c[k - 1])
        IN  c[8]]

\* crc32 of a text: crc32.ts lines 15-29
crc32(text) ==
    LET bytes == [n \in DOMAIN text |-> Utf8(text[n])]
        Step == [crc \in [hi : 0 .. 65535, lo : 0 .. 65535], byte \in 0 .. 255 |->
                    Xor32(CrcTable[Xor16(crc.lo, byte) % 256], ShiftRight(crc, 8))]
        crc[n \in 0 .. Len(text)] ==
            IF n = 0 THEN Word32(65535, 65535) ELSE Step[crc[n - 1], bytes[n]]
    IN  Xor32(crc[Len(text)], Word32(65535, 65535))

\* text has pat at index i
HasAt(text, i, pat) ==
    /\ i >= 1
    /\ i + Len(pat) - 1 <= Len(text)
    /\ \A k \in 1 .. Len(pat) : text[i + k - 1] = pat[k]

\* the index of the last character of the longest run of characters of the
\* given class that begins at index i (i - 1 if there is none), and the index
\* of the first character of the longest such run that ends at index i
RunEnd(text, i, class) ==
    IF i > Len(text) THEN i - 1
    ELSE CHOOSE j \in i - 1 .. Len(text) :
             /\ \A k \in i .. j : text[k] \in class
             /\ j = Len(text) \/ text[j + 1] \notin class

RunStart(text, i, class) ==
    LET run == CHOOSE d \in 0 .. i :
                   /\ \A k \in i - d + 1 .. i : text[k] \in class
                   /\ d = i \/ text[i - d] \notin class
    IN  i - run + 1

\* the four replacements of the representation: parser.ts lines 143-147
Normalized(text) ==
    LET \* .replace(/(:|\?)bytes /g, "$1string ")
        RECURSIVE ReplaceBytes(_, _)
        ReplaceBytes(t, i) ==
            IF i > Len(t) THEN << >>
            ELSE IF t[i] \in {":", "?"} /\ HasAt(t, i + 1, <<"b", "y", "t", "e", "s", " ">>)
            THEN <<t[i], "s", "t", "r", "i", "n", "g", " ">> \o ReplaceBytes(t, i + 7)
            ELSE <<t[i]>> \o ReplaceBytes(t, i + 1)
        \* the index after a match of / \w+:flags(\d+)?\.\d+\?true/ that begins
        \* at index i, or 0 if there is no match there
        FlagRun(t, i, w, d, e) ==
            IF /\ HasAt(t, i, <<" ">>)
               /\ w >= i + 1
               /\ HasAt(t, w + 1, <<":", "f", "l", "a", "g", "s">>)
               /\ HasAt(t, d + 1, <<".">>)
               /\ e >= d + 2
               /\ HasAt(t, e + 1, <<"?", "t", "r", "u", "e">>)
            THEN e + 6
            ELSE 0
        FlagDigits(t, i, w, d) == FlagRun(t, i, w, d, RunEnd(t, d + 2, DigitCharacters))
        FlagWord(t, i, w) == FlagDigits(t, i, w, RunEnd(t, w + 7, DigitCharacters))
        TrueFlagEnd(t, i) == FlagWord(t, i, RunEnd(t, i + 1, WordCharacters))
        \* .replace(/ \w+:flags(\d+)?\.\d+\?true/g, "")
        RECURSIVE RemoveTrueFlags(_, _)
        RemoveTrueFlags(t, i) ==
            IF i > Len(t) THEN << >>
            ELSE IF TrueFlagEnd(t, i) # 0 THEN RemoveTrueFlags(t, TrueFlagEnd(t, i))
            ELSE <<t[i]>> \o RemoveTrueFlags(t, i + 1)
        bytesReplaced == ReplaceBytes(text, 1)
        \* .replace(/</g, " ")
        lessReplaced ==
            [n \in DOMAIN bytesReplaced |->
                IF bytesReplaced[n] = "<" THEN " " ELSE bytesReplaced[n]]
        \* .replace(/>|{|}/g, "")
        bracketsRemoved == SelectSeq(lessReplaced, LAMBDA c : c \notin {">", "{", "}"})
    IN  RemoveTrueFlags(bracketsRemoved, 1)

\* variableSnakeToCamelCase: parser.ts lines 53-57
RECURSIVE variableSnakeToCamelCase(_)
variableSnakeToCamelCase(value) ==
    IF value = << >> THEN << >>
    ELSE IF /\ Len(value) >= 2
            /\ value[1] \in {"-", "_"}
            /\ value[2] \in Range(LowerCase)
    THEN <<ToUpperCase(value[2])>> \o variableSnakeToCamelCase(SubSeq(value, 3, Len(value)))
    ELSE <<value[1]>> \o variableSnakeToCamelCase(Tail(value))

\* snakeToCamelCase: parser.ts lines 46-51
snakeToCamelCase(name) ==
    LET RECURSIVE CapitalizeParts(_)
        CapitalizeParts(i) ==
            IF i > Len(name) THEN << >>
            ELSE IF i = 1 /\ name[1] \in Range(LowerCase)
            THEN <<ToUpperCase(name[1])>> \o CapitalizeParts(2)
            ELSE IF name[i] = "_" /\ i < Len(name) /\ name[i + 1] \in Range(LowerCase)
            THEN <<ToUpperCase(name[i + 1])>> \o CapitalizeParts(i + 2)
            ELSE <<name[i]>> \o CapitalizeParts(i + 1)
    IN  SelectSeq(CapitalizeParts(1), LAMBDA c : c # "_")

(***************************************************************************)
(* ------------------ the schema parser ---------------------------------- *)
(* src/teleproto_generator/parser.ts                                       *)
(***************************************************************************)

\* null, where the code holds null or undefined in place of a text
Null == <<"null">>

\* CORE_TYPES and AUTH_KEY_TYPES: parser.ts lines 3-23
CORE_TYPES ==
    { Word32(48249, 38711),
      Word32(39282, 30133),
      Word32(16365, 54073),
      Word32(50361, 63931),
      Word32(22131, 3020) }

AUTH_KEY_TYPES ==
    { Word32(1302, 9315),
      Word32(33737, 23276),
      Word32(43509, 24469),
      Word32(15466, 34004),
      Word32(22269, 57224),
      Word32(53480, 1884),
      Word32(46473, 3514),
      Word32(26179, 46676),
      Word32(55058, 58558),
      Word32(62724, 24351),
      Word32(12402, 53153) }

\* buildArgConfig: parser.ts lines 74-117.  The name is renamed in line 75
\* and not read again
buildArgConfig(name, argType) ==
    LET FlagTypeCharacters == WordCharacters \cup {"<", ">", "."}
        VectorTypeCharacters == WordCharacters \cup {"."}
        \* Number(text) for a text of decimal digits
        RECURSIVE Number(_)
        Number(text) ==
            IF text = << >> THEN 0
            ELSE 10 * Number(SubSeq(text, 1, Len(text) - 1))
                 + (IndexIn(Digits, text[Len(text)]) - 1)
        \* .replace(/^!+/, "")
        RECURSIVE StripBangs(_)
        StripBangs(text) ==
            IF text # << >> /\ Head(text) = "!" THEN StripBangs(Tail(text)) ELSE text
        \* the matches of /(flags(?:\d+)?).(\d+)\?([\w<>.]+)/ in text, each as
        \* <<p, a>>: the match begins at p and its first group ends at a
        FlagAt(text, p, a, b) ==
            /\ HasAt(text, p, <<"f", "l", "a", "g", "s">>)
            /\ a >= p + 4 /\ a <= RunEnd(text, p + 5, DigitCharacters)
            /\ a + 1 <= Len(text)
            /\ b >= a + 2
            /\ HasAt(text, b + 1, <<"?">>)
            /\ RunEnd(text, b + 2, FlagTypeCharacters) >= b + 2
        FlagMatches(text) ==
            { m \in (1 .. Len(text)) \X (1 .. Len(text)) :
                FlagAt(text, m[1], m[2], RunEnd(text, m[2] + 2, DigitCharacters)) }
        \* the match the regular expression engine finds: the leftmost, with
        \* the longest first group
        FlagGroups(text, p, a, b) ==
            [name |-> SubSeq(text, p, a),
             index |-> SubSeq(text, a + 2, b),
             type |-> SubSeq(text, b + 2, RunEnd(text, b + 2, FlagTypeCharacters))]
        FlagMatchAt(text, m) == FlagGroups(text, m[1], m[2], RunEnd(text, m[2] + 2, DigitCharacters))
        FlagMatch(text) ==
            FlagMatchAt(text, CHOOSE m \in FlagMatches(text) :
                                \A o \in FlagMatches(text) :
                                    m[1] < o[1] \/ (m[1] = o[1] /\ m[2] >= o[2]))
        \* the places where /[Vv]ector<([\w\d.]+)>/ matches in text, and the
        \* group of the leftmost match
        VectorMatches(text) ==
            { p \in 1 .. Len(text) :
                /\ text[p] \in {"V", "v"}
                /\ HasAt(text, p + 1, <<"e", "c", "t", "o", "r", "<">>)
                /\ RunEnd(text, p + 7, VectorTypeCharacters) >= p + 7
                /\ HasAt(text, RunEnd(text, p + 7, VectorTypeCharacters) + 1, <<">">>) }
        VectorGroup(text, p) == SubSeq(text, p + 7, RunEnd(text, p + 7, VectorTypeCharacters))
        VectorMatch(text) ==
            VectorGroup(text, CHOOSE q \in VectorMatches(text) :
                                \A m \in VectorMatches(text) : q <= m)
        \* type.split(".").pop() || ""
        RECURSIVE LastPart(_)
        LastPart(text) ==
            IF \E n \in DOMAIN text : text[n] = "." THEN LastPart(Tail(text)) ELSE text
        \* lines 106-116
        AfterVector(isFlag, flagName, flagIndex, isVector, useVectorId, type) ==
            [isVector |-> isVector,
             isFlag |-> isFlag,
             skipConstructorId |->
                 (LastPart(type) # << >> /\ LastPart(type)[1] \in Range(LowerCase)),
             flagName |-> flagName,
             flagIndex |-> flagIndex,
             flagIndicator |-> FALSE,
             type |-> IF type = <<"f", "u", "t", "u", "r", "e", "_", "s", "a", "l", "t">>
                      THEN <<"F", "u", "t", "u", "r", "e", "S", "a", "l", "t">>
                      ELSE type,
             useVectorId |-> useVectorId]
        \* lines 99-104
        AfterFlag(isFlag, flagName, flagIndex, type) ==
            IF VectorMatches(type) # {}
            THEN AfterVector(isFlag, flagName, flagIndex, TRUE,
                             IF type[1] = "V" THEN "true" ELSE "false", VectorMatch(type))
            ELSE AfterVector(isFlag, flagName, flagIndex, FALSE, "null", type)
        \* lines 92-97
        Flagged(flagMatch) ==
            AfterFlag(TRUE, flagMatch.name, Number(flagMatch.index), flagMatch.type)
        \* lines 89-97
        Typed(type) ==
            IF FlagMatches(type) # {} THEN Flagged(FlagMatch(type))
            ELSE AfterFlag(FALSE, Null, 0 - 1, type)
    IN  IF argType = <<"#">>
        THEN [isVector |-> FALSE, isFlag |-> FALSE, skipConstructorId |-> FALSE,
              flagName |-> Null, flagIndex |-> 0 - 1, flagIndicator |-> TRUE,
              type |-> Null, useVectorId |-> "null"]
        ELSE Typed(StripBangs(argType))

\* what Number.parseInt(undefined, 16) gives
NaN == [nan |-> TRUE]

\* Number.parseInt(text, 16) for a text of at most eight hexadecimal digits,
\* and for no text
RECURSIVE ParseHex(_)
ParseHex(text) ==
    LET HexLower == <<"0", "1", "2", "3", "4", "5", "6", "7", "8", "9",
                      "a", "b", "c", "d", "e", "f">>
        HexValue(c) ==
            IF c \in Range(HexLower) THEN IndexIn(HexLower, c) - 1
            ELSE 9 + IndexIn(<<"A", "B", "C", "D", "E", "F">>, c)
        Shifted(w, d) ==
            Word32((w.hi * 16 + (w.lo * 16) \div 65536) % 65536, (w.lo * 16 + d) % 65536)
    IN  IF text = << >> THEN Word32(0, 0)
        ELSE Shifted(ParseHex(SubSeq(text, 1, Len(text) - 1)), HexValue(text[Len(text)]))

parseInt(text) == IF text = Null THEN NaN ELSE ParseHex(text)

\* the matches of the regular expression of fromLine in line (parser.ts lines
\* 120-122), each with the index s where its name begins and its three
\* groups.  The line must end with \s=\s([\w\d<>#.?]+);$ , which fixes the
\* result type; between the name (and its id) and that, every field follows
\* one white-space character
LineMatches(line) ==
    LET NameCharacters == WordCharacters \cup {"."}
        HexCharacters == DigitCharacters \cup {"a", "b", "c", "d", "e", "f", "A", "B", "C", "D", "E", "F"}
        ArgTypeCharacters == WordCharacters \cup {"<", ">", "#", ".", "?", "!"}
        ResultTypeCharacters == WordCharacters \cup {"<", ">", "#", ".", "?"}
        n == Len(line)
        r == RunStart(line, n - 1, ResultTypeCharacters)
        tail ==
            /\ n >= 5
            /\ line[n] = ";"
            /\ r <= n - 1
            /\ r >= 4
            /\ line[r - 1] \in WhiteSpace
            /\ line[r - 2] = "="
            /\ line[r - 3] \in WhiteSpace
        \* line[i .. r - 4] is (?:\s{?\w+:[\w\d<>#.?!]+}?)*
        RECURSIVE Fields(_)
        FieldAt(i, w, c, x) ==
            /\ c > w
            /\ HasAt(line, c, <<":">>)
            /\ x > c
            /\ \/ x + 1 <= r - 3 /\ Fields(x + 1)
               \/ HasAt(line, x + 1, <<"}">>) /\ x + 2 <= r - 3 /\ Fields(x + 2)
        FieldType(i, w, c) == FieldAt(i, w, c, RunEnd(line, c + 1, ArgTypeCharacters))
        FieldName(i, w) == FieldType(i, w, RunEnd(line, w, WordCharacters) + 1)
        Fields(i) ==
            IF i = r - 3 THEN TRUE
            ELSE IF i > r - 3 \/ line[i] \notin WhiteSpace THEN FALSE
            ELSE FieldName(i, IF HasAt(line, i + 1, <<"{">>) THEN i + 2 ELSE i + 1)
        HasId(a, h) == HasAt(line, a + 1, <<"#">>) /\ h >= a + 2 /\ Fields(h + 1)
        Groups(s, a, h) ==
            [s |-> s,
             name |-> SubSeq(line, s, a),
             id |-> IF HasId(a, h) THEN SubSeq(line, a + 2, h) ELSE Null,
             result |-> SubSeq(line, r, n - 1)]
        Named(s, a) == Groups(s, a, RunEnd(line, a + 2, HexCharacters))
        Matches(s, a) == a >= s /\ (HasId(a, RunEnd(line, a + 2, HexCharacters)) \/ Fields(a + 1))
    IN  IF ~tail THEN {}
        ELSE { Named(s, RunEnd(line, s, NameCharacters)) :
                 s \in { q \in 1 .. n : Matches(q, RunEnd(line, q, NameCharacters)) } }

\* the match the regular expression engine finds: the leftmost one
LineMatch(line) ==
    LET matches == LineMatches(line)
    IN  CHOOSE m \in matches : \A o \in matches : m.s <= o.s

\* findAll(/({)?(\w+):([\w\d<>#.?!]+)}?/, text) from index i on: parser.ts
\* lines 59-72 and 128
RECURSIVE findAll(_, _)
findAll(text, i) ==
    LET ArgTypeCharacters == WordCharacters \cup {"<", ">", "#", ".", "?", "!"}
        W(p) == IF HasAt(text, p, <<"{">>) THEN p + 1 ELSE p
        C(p) == RunEnd(text, W(p), WordCharacters) + 1
        X(p) == RunEnd(text, C(p) + 1, ArgTypeCharacters)
        ArgAt(p) == C(p) > W(p) /\ HasAt(text, C(p), <<":">>) /\ X(p) > C(p)
        ps == { p \in i .. Len(text) : ArgAt(p) }
        Found(p) ==
            <<[brace |-> HasAt(text, p, <<"{">>),
               name |-> SubSeq(text, W(p), C(p) - 1),
               argType |-> SubSeq(text, C(p) + 1, X(p))]>>
            \o findAll(text, IF HasAt(text, X(p) + 1, <<"}">>) THEN X(p) + 2 ELSE X(p) + 1)
    IN  IF ps = {} THEN << >> ELSE Found(CHOOSE q \in ps : \A m \in ps : q <= m)

\* config.name.split(/\.(.+)/): the parts before and after the first dot that
\* has something after it
SplitDot(name) ==
    LET ds == { n \in 1 .. Len(name) - 1 : name[n] = "." }
        At(d) == <<SubSeq(name, 1, d - 1), SubSeq(name, d + 1, Len(name)), << >> >>
    IN  IF ds = {} THEN <<name>> ELSE At(CHOOSE n \in ds : \A m \in ds : n <= m)

\* fromLine for a line its regular expression matches: parser.ts lines
\* 128-168.  An object is held as the sequence of its entries in insertion
\* order; argsConfig is still empty when the representation is built
fromLine(line, isFunction) ==
    LET \* object[key] = value
        SetKey(object, key, value) ==
            IF \E n \in DOMAIN object : object[n].key = key
            THEN [n \in DOMAIN object |->
                    IF object[n].key = key THEN [key |-> key, value |-> value]
                    ELSE object[n]]
            ELSE Append(object, [key |-> key, value |-> value])
        \* Object.keys(object).join(" ")
        RECURSIVE JoinKeys(_)
        JoinKeys(object) ==
            IF object = << >> THEN << >>
            ELSE IF Len(object) = 1 THEN object[1].key
            ELSE object[1].key \o <<" ">> \o JoinKeys(Tail(object))
        \* lines 139-147
        Representation(name, argsConfig, result) ==
            Normalized(name
                       \o (IF Len(argsConfig) # 0 THEN <<" ">> \o JoinKeys(argsConfig)
                           ELSE << >>)
                       \o <<" ", "=", " ">> \o result)
        \* lines 131 and 138-150: NaN and 0 are falsy
        ConstructorId(id, name, argsConfig, result) ==
            IF id = NaN \/ id = Word32(0, 0)
            THEN crc32(Representation(name, argsConfig, result))
            ELSE id
        \* lines 152-159
        RECURSIVE ArgsConfig(_, _)
        ArgsConfig(argsMatch, object) ==
            IF argsMatch = << >> THEN object
            ELSE ArgsConfig(Tail(argsMatch),
                    IF Head(argsMatch).brace THEN object
                    ELSE SetKey(object, variableSnakeToCamelCase(Head(argsMatch).name),
                                buildArgConfig(Head(argsMatch).name, Head(argsMatch).argType)))
        \* lines 161-165
        Dotted(name) == \E n \in DOMAIN name : name[n] = "."
        OwnName(name) == IF Dotted(name) THEN SplitDot(name)[2] ELSE name
        Namespace(name) == IF Dotted(name) THEN SplitDot(name)[1] ELSE Null
        FromMatch(match, argsMatch, argsConfig) ==
            [name |-> snakeToCamelCase(OwnName(match.name)),
             constructorId |->
                 ConstructorId(parseInt(match.id), match.name, argsConfig, match.result),
             argsConfig |-> ArgsConfig(argsMatch, argsConfig),
             subclassOfId |-> crc32(match.result),
             result |-> match.result,
             isFunction |-> isFunction,
             namespace |-> Namespace(match.name)]
    IN  FromMatch(LineMatch(line), findAll(line, 1), << >>)

\* how fromLine ends: it throws "Cannot parse TLObject" with the line when the
\* expression does not match (parser.ts lines 124-126), and snakeToCamelCase
\* throws a TypeError on the undefined name that a name ending in its only
\* dots leaves (lines 161-167)
fromLineThrows(line) ==
    LET NameThrows(name) ==
            IF (\E n \in DOMAIN name : name[n] = ".") /\ Len(SplitDot(name)) = 1
            THEN "TypeError"
            ELSE "nothing"
    IN  IF LineMatches(line) = {} THEN "Cannot parse TLObject"
        ELSE NameThrows(LineMatch(line).name)

\* the schema lines the parser is run on, and the texts made of them
SchemaLines ==
    { <<"f", "o", "o", " ", "f", "i", "e", "l", "d", ":", "i", "n", "t", " ", "=", " ", "B", "a", "r", ";">>,
      <<"f", "o", "o", " ", "=", " ", "B", "a", "r", ";">>,
      <<"f", "o", "o", "#", "0", " ", "=", " ", "B", "a", "r", ";">>,
      <<"f", "o", "o", "#", "1", "a", "2", "b", "3", "c", "4", "d", " ", "s", "e", "l", "f", ":", "f", "l", "a", "g", "s", ".", "0", "?", "t", "r", "u", "e", " ", "b", ":", "f", "l", "a", "g", "s", ".", "0", "?", "V", "e", "c", "t", "o", "r", "<", "b", "y", "t", "e", "s", ">", " ", "=", " ", "B", "a", "r", ";">>,
      <<"-", "-", "-", "f", "u", "n", "c", "t", "i", "o", "n", "s", "-", "-", "-">>,
      <<" ", "/", "/", " ", "t", "y", "p", "e", "s">>,
      <<"b", "o", "o", "l", "F", "a", "l", "s", "e", "#", "b", "c", "7", "9", "9", "7", "3", "7", " ", "=", " ", "B", "o", "o", "l", ";">>,
      <<"v", "e", "c", "t", "o", "r", "#", "1", "c", "b", "5", "c", "4", "1", "5", " ", "{", "t", ":", "T", "y", "p", "e", "}", " ", "#", " ", "[", " ", "t", " ", "]", " ", "=", " ", "V", "e", "c", "t", "o", "r", " ", "t", ";">>,
      <<"r", "e", "s", "P", "Q", "#", "0", "5", "1", "6", "2", "4", "6", "3", " ", "n", "o", "n", "c", "e", ":", "i", "n", "t", "1", "2", "8", " ", "p", "q", ":", "s", "t", "r", "i", "n", "g", " ", "=", " ", "R", "e", "s", "P", "Q", ";">>,
      <<"b", "a", "d", " ", "l", "i", "n", "e">>,
      <<"n", ".", " ", "=", " ", "B", ";">>,
      <<"n", "s", ".", "g", "e", "t", "_", "i", "t", "#", "F", "0", " ", "f", "l", "a", "g", "s", ":", "#", " ", "{", "X", ":", "T", "y", "p", "e", "}", " ", "a", "_", "b", ":", "f", "l", "a", "g", "s", ".", "1", "?", "s", "t", "r", "i", "n", "g", " ", "=", " ", "n", "s", ".", "R", "e", "s", ";">> }

Schemas ==
    LET RECURSIVE JoinLines(_)
        JoinLines(lines) ==
            IF Len(lines) = 1 THEN lines[1]
            ELSE lines[1] \o <<"\n">> \o JoinLines(Tail(lines))
    IN  { JoinLines(lines) : lines \in UNION { [1 .. n -> SchemaLines] : n \in 1 .. MaxLines } }

\* content.split("\n"): parser.ts line 175
RECURSIVE Split(_)
Split(text) ==
    LET ns == { n \in DOMAIN text : text[n] = "\n" }
        At(n) == <<SubSeq(text, 1, n - 1)>> \o Split(SubSeq(text, n + 1, Len(text)))
    IN  IF ns = {} THEN <<text>> ELSE At(CHOOSE q \in ns : \A m \in ns : q <= m)

\* the line without its comment, trimmed: parser.ts lines 176-181
Cleaned(line) ==
    LET ps == { p \in DOMAIN line : HasAt(line, p, <<"/", "/">>) }
        WithoutComment ==
            IF ps = {} THEN line
            ELSE SubSeq(line, 1, (CHOOSE q \in ps : \A m \in ps : q <= m) - 1)
        RECURSIVE Trim(_)
        Trim(text) ==
            IF text = << >> THEN text
            ELSE IF Head(text) \in WhiteSpace THEN Trim(Tail(text))
            ELSE IF text[Len(text)] \in WhiteSpace THEN Trim(SubSeq(text, 1, Len(text) - 1))
            ELSE text
    IN  Trim(WithoutComment)

\* line.match(/---(\w+)---/): the name of the section, Null without a match
Section(line) ==
    LET ps == { p \in DOMAIN line :
                  /\ HasAt(line, p, <<"-", "-", "-">>)
                  /\ RunEnd(line, p + 3, WordCharacters) >= p + 3
                  /\ HasAt(line, RunEnd(line, p + 3, WordCharacters) + 1, <<"-", "-", "-">>) }
        At(p) == SubSeq(line, p + 3, RunEnd(line, p + 3, WordCharacters))
    IN  IF ps = {} THEN Null ELSE At(CHOOSE q \in ps : \A m \in ps : q <= m)

\* String(error).includes("vector#1cb5c415") for the error fromLine throws
\* on line: parser.ts line 199
IsVectorError(line) ==
    /\ fromLineThrows(line) = "Cannot parse TLObject"
    /\ \E p \in DOMAIN line :
          HasAt(line, p, <<"v", "e", "c", "t", "o", "r", "#", "1", "c", "b", "5", "c", "4", "1", "5">>)

\* the second loop of parseTl on one definition: parser.ts lines 206-212
AuthKeyBytes(object) ==
    IF object.constructorId \in AUTH_KEY_TYPES
    THEN [object EXCEPT !.argsConfig =
            [n \in DOMAIN object.argsConfig |->
                IF object.argsConfig[n].value.type = <<"s", "t", "r", "i", "n", "g">>
                THEN [object.argsConfig[n] EXCEPT !.value.type = <<"b", "y", "t", "e", "s">>]
                ELSE object.argsConfig[n]]]
    ELSE object

\* no call of parseTl
NoParse ==
    [pc |-> "idle", lines |-> << >>, index |-> 0, isFunction |-> FALSE,
     parsed |-> << >>, origin |-> << >>, error |-> [kind |-> "nothing", line |-> << >>]]

\* parseTl is called on content: parser.ts lines 171-175
ParseTlCall ==
    /\ tl.pc = "idle"
    /\ tl' = [NoParse EXCEPT !.pc = "lines", !.lines = Split(content), !.index = 1]
    /\ UNCHANGED <<content, engineVars, iVars, aVars, tVars, gVars, qVars>>

\* one turn of the loop over the lines: parser.ts lines 175-203.  origin
\* records, for every parsed definition, the index of its line
ParseTlLine ==
    LET \* lines 193-197
        AfterFromLine(t, parsedLine) ==
            IF parsedLine.constructorId \in CORE_TYPES THEN [t EXCEPT !.index = t.index + 1]
            ELSE [t EXCEPT !.index = t.index + 1,
                           !.parsed = Append(t.parsed, parsedLine),
                           !.origin = Append(t.origin, t.index)]
        \* lines 198-202
        AfterThrow(t, line, error) ==
            IF IsVectorError(line) THEN [t EXCEPT !.index = t.index + 1]
            ELSE [t EXCEPT !.pc = "thrown", !.error = [kind |-> error, line |-> line]]
        \* lines 181-203
        AfterLine(t, line) ==
            IF line = << >> THEN [t EXCEPT !.index = t.index + 1]
            ELSE IF Section(line) # Null
            THEN [t EXCEPT !.index = t.index + 1,
                           !.isFunction =
                               (Section(line) = <<"f", "u", "n", "c", "t", "i", "o", "n", "s">>)]
            ELSE IF fromLineThrows(line) # "nothing"
            THEN AfterThrow(t, line, fromLineThrows(line))
            ELSE AfterFromLine(t, fromLine(line, t.isFunction))
    IN  /\ tl.pc = "lines"
        /\ tl.index <= Len(tl.lines)
        /\ tl' = AfterLine(tl, Cleaned(tl.lines[tl.index]))
        /\ UNCHANGED <<content, engineVars, iVars, aVars, tVars, gVars, qVars>>

\* after the last line, the second loop and the return: parser.ts lines 205-215
ParseTlReturn ==
    /\ tl.pc = "lines"
    /\ tl.index > Len(tl.lines)
    /\ tl' = [tl EXCEPT !.pc = "returned",
                        !.parsed = [n \in DOMAIN tl.parsed |-> AuthKeyBytes(tl.parsed[n])]]
    /\ UNCHANGED <<content, engineVars, iVars, aVars, tVars, gVars, qVars>>

ParserIdle == content = << >> /\ tl = NoParse

ParserInit == content \in Schemas /\ tl = NoParse

ParserNext == ParseTlCall \/ ParseTlLine \/ ParseTlReturn

(***************************************************************************)
(* src/teleproto_generator/generationHelpers.js                            *)
(* The file declares crc32, findAll, buildArgConfig, snakeToCamelCase and  *)
(* variableSnakeToCamelCase itself (lines 23-122) with the statements of   *)
(* parser.ts and crc32.ts; the operators that model those are used for    *)
(* both files.                                                             *)
(***************************************************************************)

\* fromLine of generationHelpers.js, lines 124-176: what it throws, and the
\* object it returns if it throws nothing.  The object has its key namespace
\* from the start (line 141); argsConfig is still empty when the
\* representation is built (lines 144-157)
generationHelpers_fromLine(line, isFunction) ==
    LET \* Object.keys(object).map((arg) => arg.toString()).join(" ")
        RECURSIVE Joined(_)
        Joined(object) ==
            IF object = << >> THEN << >>
            ELSE IF Len(object) = 1 THEN object[1].key
            ELSE object[1].key \o <<" ">> \o Joined(Tail(object))
        \* lines 144-157: hexId is ""
        Derived(name, argsConfig, result) ==
            crc32(Normalized(name \o << >>
                             \o (IF Len(argsConfig) # 0 THEN <<" ">> \o Joined(argsConfig)
                                 ELSE << >>)
                             \o <<" ", "=", " ">> \o result))
        \* line 137 and line 144: NaN and 0 are falsy
        Id(parsed, name, result) ==
            IF parsed = NaN \/ parsed = Word32(0, 0) THEN Derived(name, << >>, result)
            ELSE parsed
        \* currentConfig.argsConfig[key] = value
        Put(object, key, value) ==
            IF \E n \in DOMAIN object : object[n].key = key
            THEN [n \in DOMAIN object |->
                    IF object[n].key = key THEN [key |-> key, value |-> value]
                    ELSE object[n]]
            ELSE Append(object, [key |-> key, value |-> value])
        \* lines 159-164
        RECURSIVE Filled(_, _)
        Filled(argsMatch, object) ==
            IF argsMatch = << >> THEN object
            ELSE Filled(Tail(argsMatch),
                    IF Head(argsMatch).brace THEN object
                    ELSE Put(object, variableSnakeToCamelCase(Head(argsMatch).name),
                             buildArgConfig(Head(argsMatch).name, Head(argsMatch).argType)))
        \* lines 166-169: the destructuring assignment of the split name
        HasDot(name) == \E n \in DOMAIN name : name[n] = "."
        \* lines 133-175
        Made(match, parts) ==
            IF HasDot(match.name) /\ Len(parts) = 1
            THEN [thrown |-> "TypeError", value |-> << >>]
            ELSE [thrown |-> "nothing",
                  value |->
                     [name |-> snakeToCamelCase(IF HasDot(match.name) THEN parts[2]
                                                ELSE match.name),
                      constructorId |-> Id(parseInt(match.id), match.name, match.result),
                      argsConfig |-> Filled(findAll(line, 1), << >>),
                      subclassOfId |-> crc32(match.result),
                      result |-> match.result,
                      isFunction |-> isFunction,
                      namespace |-> IF HasDot(match.name) THEN parts[1] ELSE Null]]
    IN  IF LineMatches(line) = {}
        THEN [thrown |-> "Cannot parse TLObject", value |-> << >>]
        ELSE Made(LineMatch(line), SplitDot(LineMatch(line).name))

\* parseTl of generationHelpers.js, lines 178-224, run to its end (the
\* function is a generator: the loops run when the caller asks for the first
\* object).  file.split, the comment and the trim of lines 183-192 and the
\* section test of line 194 are the statements of parser.ts lines 175-186
generationHelpers_parseTl(file, ignoreIds) ==
    LET \* e.toString().includes("vector#1cb5c415"): the message of the Error
        \* of line 130 ends with the line, a TypeError's has no line
        IsVector(line, thrown) ==
            /\ thrown = "Cannot parse TLObject"
            /\ \E p \in DOMAIN line :
                  HasAt(line, p, <<"v", "e", "c", "t", "o", "r", "#",
                                   "1", "c", "b", "5", "c", "4", "1", "5">>)
        \* lines 200-210
        Tried(s, line, made) ==
            IF made.thrown = "nothing"
            THEN IF made.value.constructorId \in ignoreIds THEN s
                 ELSE [s EXCEPT !.objAll = Append(@, made.value)]
            ELSE IF IsVector(line, made.thrown) THEN s
            ELSE [s EXCEPT !.thrown = made.thrown, !.line = line]
        \* lines 183-211
        Turn(s, line) ==
            IF s.thrown # "nothing" \/ line = << >> THEN s
            ELSE IF Section(line) # Null
            THEN [s EXCEPT !.isFunction =
                     (Section(line) = <<"f", "u", "n", "c", "t", "i", "o", "n", "s">>)]
            ELSE Tried(s, line, generationHelpers_fromLine(line, s.isFunction))
        Scan(fileLines) ==
            LET scan[n \in 0 .. Len(fileLines)] ==
                    IF n = 0
                    THEN [isFunction |-> FALSE, objAll |-> << >>, thrown |-> "nothing",
                          line |-> << >>]
                    ELSE Turn(scan[n - 1], Cleaned(fileLines[n]))
            IN  scan[Len(fileLines)]
        \* lines 213-221
        WithBytes(obj) ==
            IF obj.constructorId \in AUTH_KEY_TYPES
            THEN [obj EXCEPT !.argsConfig =
                    [n \in DOMAIN obj.argsConfig |->
                        IF obj.argsConfig[n].value.type = <<"s", "t", "r", "i", "n", "g">>
                        THEN [obj.argsConfig[n] EXCEPT !.value.type = <<"b", "y", "t", "e", "s">>]
                        ELSE obj.argsConfig[n]]]
            ELSE obj
        \* lines 222-224
        Yielded(s) ==
            IF s.thrown # "nothing"
            THEN [pc |-> "thrown", objAll |-> << >>,
                  error |-> [kind |-> s.thrown, line |-> s.line]]
            ELSE [pc |-> "returned",
                  objAll |-> [n \in DOMAIN s.objAll |-> WithBytes(s.objAll[n])],
                  error |-> [kind |-> "nothing", line |-> << >>]]
    IN  Yielded(Scan(Split(file)))

\* parseTl of generationHelpers.js is called with an empty ignore set
GenerationHelpersParseTl_NothingIgnored ==
    /\ tl.pc \in {"returned", "thrown"}
    /\ gen.pc = "idle"
    /\ gen' = generationHelpers_parseTl(content, {})
    /\ UNCHANGED <<engineVars, pVars, iVars, aVars, tVars, qVars>>

\* the text that parseTl of parser.ts was given is given to parseTl of
\* generationHelpers.js, with its default ignore set (line 178), and the
\* generator is run to its end
GenerationHelpersParseTl ==
    /\ tl.pc \in {"returned", "thrown"}
    /\ gen.pc = "idle"
    /\ gen' = generationHelpers_parseTl(content, CORE_TYPES)
    /\ UNCHANGED <<engineVars, pVars, iVars, aVars, tVars, qVars>>

(***************************************************************************)
(* ------------------ AES-IGE -------------------------------------------- *)
(* src/teleproto/crypto/IGE.ts.  A buffer is a sequence of bytes.          *)
(***************************************************************************)

\* blockSize: IGE.ts lines 38 and 70
blockSize == 16

\* the buffer of n bytes whose k-th byte is (a * k + b) % 256
Bytes(n, a, b) == [k \in 1 .. n |-> (a * k + b) % 256]

\* xorBuffers: IGE.ts lines 16-22; past the end of b, b[i] is undefined and
\* a[i] ^ undefined is a[i]
xorBuffers(a, b) ==
    [n \in DOMAIN a |-> IF n \in DOMAIN b THEN Xor16(a[n], b[n]) ELSE a[n]]

\* a block cipher that reads only the second half of the block, and so is not
\* a permutation of the blocks
aesEncryptBlock_HalfBlock(key, block) ==
    [n \in 1 .. 16 |-> (Xor16(block[8 + (n % 8) + 1], key[n]) + key[16 + n]) % 256]

\* aesEncryptBlock and aesDecryptBlock: IGE.ts lines 24-35.  AES-256-ECB on one
\* block is node:crypto's; it is modelled as what the code relies on, a
\* permutation of the blocks that the key selects, with its inverse: the bytes
\* are rotated, xored with the first half of the key and added to the second
aesEncryptBlock(key, block) ==
    [n \in 1 .. 16 |-> (Xor16(block[(n % 16) + 1], key[n]) + key[16 + n]) % 256]

aesDecryptBlock(key, block) ==
    [n \in 1 .. 16 |->
        Xor16((block[((n + 14) % 16) + 1] + 256 - key[16 + ((n + 14) % 16) + 1]) % 256,
              key[((n + 14) % 16) + 1])]

\* Helpers.generateRandomBytes(n): what it may return (two of the 256^n buffers)
generateRandomBytes(n) == { Bytes(n, 0, 0), Bytes(n, 29, 171) }

\* encryptIge: IGE.ts lines 37-67; random is what generateRandomBytes returned
\* in line 43, if it was called
encryptIge(key, iv, plainText, random) ==
    LET padding == Len(plainText) % blockSize
        padded == IF padding # 0 THEN plainText \o random ELSE plainText
        \* lines 56-63: one turn of the loop on plainBlock
        Chained(plainBlock, cipherBlock, output) ==
            [prevCipher |-> cipherBlock, prevPlain |-> plainBlock, output |-> output \o cipherBlock]
        Turn(s, plainBlock) ==
            Chained(plainBlock,
                    xorBuffers(aesEncryptBlock(key, xorBuffers(plainBlock, s.prevCipher)),
                               s.prevPlain),
                    s.output)
        chain[b \in 0 .. Len(padded) \div blockSize] ==
            IF b = 0
            THEN [prevCipher |-> SubSeq(iv, 1, blockSize),
                  prevPlain |-> SubSeq(iv, blockSize + 1, 2 * blockSize),
                  output |-> << >>]
            ELSE Turn(chain[b - 1], SubSeq(padded, (b - 1) * blockSize + 1, b * blockSize))
    IN  chain[Len(padded) \div blockSize].output

\* decryptIge that chains like encryptIge: the previous cipher block is xored
\* in before the block cipher and the previous plain block after it
decryptIge_EncryptOrder(key, iv, cipherText) ==
    LET Chained(cipherBlock, plainBlock, output) ==
            [prevCipher |-> cipherBlock, prevPlain |-> plainBlock, output |-> output \o plainBlock]
        Turn(s, cipherBlock) ==
            Chained(cipherBlock,
                    xorBuffers(aesDecryptBlock(key, xorBuffers(cipherBlock, s.prevCipher)),
                               s.prevPlain),
                    s.output)
        chain[b \in 0 .. Len(cipherText) \div blockSize] ==
            IF b = 0
            THEN [prevCipher |-> SubSeq(iv, 1, blockSize),
                  prevPlain |-> SubSeq(iv, blockSize + 1, 2 * blockSize),
                  output |-> << >>]
            ELSE Turn(chain[b - 1], SubSeq(cipherText, (b - 1) * blockSize + 1, b * blockSize))
    IN  IF Len(cipherText) % blockSize # 0
        THEN [thrown |-> "Cipher text must be multiple of 16 bytes", output |-> << >>,
              blocks |-> 0]
        ELSE [thrown |-> "nothing", output |-> chain[Len(cipherText) \div blockSize].output,
              blocks |-> Len(cipherText) \div blockSize]

\* decryptIge without the length check: the whole blocks are decrypted and
\* returned, the rest of the cipher text is dropped
decryptIge_Truncating(key, iv, cipherText) ==
    LET Chained(cipherBlock, plainBlock, output) ==
            [prevCipher |-> cipherBlock, prevPlain |-> plainBlock, output |-> output \o plainBlock]
        Turn(s, cipherBlock) ==
            Chained(cipherBlock,
                    xorBuffers(aesDecryptBlock(key, xorBuffers(cipherBlock, s.prevPlain)),
                               s.prevCipher),
                    s.output)
        chain[b \in 0 .. Len(cipherText) \div blockSize] ==
            IF b = 0
            THEN [prevCipher |-> SubSeq(iv, 1, blockSize),
                  prevPlain |-> SubSeq(iv, blockSize + 1, 2 * blockSize),
                  output |-> << >>]
            ELSE Turn(chain[b - 1], SubSeq(cipherText, (b - 1) * blockSize + 1, b * blockSize))
    IN  [thrown |-> "nothing", output |-> chain[Len(cipherText) \div blockSize].output,
         blocks |-> Len(cipherText) \div blockSize]

\* decryptIge: IGE.ts lines 69-95.  blocks counts the calls of aesDecryptBlock
decryptIge(key, iv, cipherText) ==
    LET Chained(cipherBlock, plainBlock, output) ==
            [prevCipher |-> cipherBlock, prevPlain |-> plainBlock, output |-> output \o plainBlock]
        Turn(s, cipherBlock) ==
            Chained(cipherBlock,
                    xorBuffers(aesDecryptBlock(key, xorBuffers(cipherBlock, s.prevPlain)),
                               s.prevCipher),
                    s.output)
        chain[b \in 0 .. Len(cipherText) \div blockSize] ==
            IF b = 0
            THEN [prevCipher |-> SubSeq(iv, 1, blockSize),
                  prevPlain |-> SubSeq(iv, blockSize + 1, 2 * blockSize),
                  output |-> << >>]
            ELSE Turn(chain[b - 1], SubSeq(cipherText, (b - 1) * blockSize + 1, b * blockSize))
    IN  IF Len(cipherText) % blockSize # 0
        THEN [thrown |-> "Cipher text must be multiple of 16 bytes", output |-> << >>,
              blocks |-> 0]
        ELSE [thrown |-> "nothing", output |-> chain[Len(cipherText) \div blockSize].output,
              blocks |-> Len(cipherText) \div blockSize]

\* no IGE instance
NoIge == [pc |-> "none", key |-> << >>, iv |-> << >>, thrown |-> "nothing", calls |-> << >>]

\* new IGE(key, iv): IGE.ts lines 8-14
IgeNew(key, iv) ==
    /\ ige.pc = "none"
    /\ ige' = IF Len(key) # 32
              THEN [NoIge EXCEPT !.pc = "thrown", !.thrown = "Key must be 32 bytes (AES-256)"]
              ELSE IF Len(iv) # 32
              THEN [NoIge EXCEPT !.pc = "thrown",
                                 !.thrown = "IV must be 32 bytes (2 * block size)"]
              ELSE [NoIge EXCEPT !.pc = "ready", !.key = key, !.iv = iv]
    /\ UNCHANGED <<engineVars, pVars, aVars, tVars, gVars, qVars>>

\* a call of encryptIge that leaves the chain where it ended: the last cipher
\* block and the last plain block become the instance's iv
IgeEncrypt_Chaining(plainText, random) ==
    /\ ige.pc = "ready"
    /\ Len(ige.calls) < MaxIgeCalls
    /\ LET padded == plainText \o random
           output == encryptIge(ige.key, ige.iv, plainText, random)
       IN  ige' = [ige EXCEPT
                     !.calls =
                        Append(@, [op |-> "encryptIge", input |-> plainText,
                                   thrown |-> "nothing", output |-> output,
                                   blocks |-> Len(padded) \div blockSize]),
                     !.iv = IF padded = << >> THEN @
                            ELSE SubSeq(output, Len(output) - blockSize + 1, Len(output))
                                 \o SubSeq(padded, Len(padded) - blockSize + 1, Len(padded))]
    /\ UNCHANGED <<engineVars, pVars, aVars, tVars, gVars, qVars>>

\* a call of encryptIge on the instance: IGE.ts lines 37-67
IgeEncrypt(plainText, random) ==
    /\ ige.pc = "ready"
    /\ Len(ige.calls) < MaxIgeCalls
    /\ ige' = [ige EXCEPT !.calls =
                  Append(@, [op |-> "encryptIge", input |-> plainText, thrown |-> "nothing",
                             output |-> encryptIge(ige.key, ige.iv, plainText, random),
                             blocks |-> (Len(plainText) + Len(random)) \div blockSize])]
    /\ UNCHANGED <<engineVars, pVars, aVars, tVars, gVars, qVars>>

\* a call of decryptIge on the instance: IGE.ts lines 69-95
IgeDecrypt(cipherText) ==
    /\ ige.pc = "ready"
    /\ Len(ige.calls) < MaxIgeCalls
    /\ ige' = [ige EXCEPT !.calls =
                  Append(@, [op |-> "decryptIge", input |-> cipherText]
                            @@ decryptIge(ige.key, ige.iv, cipherText))]
    /\ UNCHANGED <<engineVars, pVars, aVars, tVars, gVars, qVars>>

\* the keys, ivs, plaintexts and ciphertexts the instance is used with
IgeKeys == { Bytes(32, 7, 1), Bytes(32, 13, 5), Bytes(31, 7, 1) }

IgeIvs == { Bytes(32, 3, 9), Bytes(32, 11, 0), Bytes(16, 3, 9) }

IgePlainTexts ==
    { << >>, Bytes(5, 1, 0), Bytes(16, 1, 0), Bytes(17, 1, 0), Bytes(32, 1, 0),
      [Bytes(32, 1, 0) EXCEPT ![20] = 0], Bytes(32, 2, 3) }

IgeCipherTexts ==
    { Bytes(16, 5, 5), Bytes(15, 5, 5), Bytes(33, 5, 5) }
    \cup { ige.calls[n].output : n \in DOMAIN ige.calls }

IgeIdle == ige = NoIge

IgeNext ==
    \/ \E key \in IgeKeys, iv \in IgeIvs : IgeNew(key, iv)
    \/ \E plainText \in IgePlainTexts :
          \E random \in IF Len(plainText) % blockSize # 0
                        THEN generateRandomBytes(blockSize - (Len(plainText) % blockSize))
                        ELSE { << >> } :
              IgeEncrypt(plainText, random)
    \/ \E cipherText \in IgeCipherTexts : IgeDecrypt(cipherText)

(***************************************************************************)
(* ------------------ sign-in -------------------------------------------- *)
(* src/unnamed/part_004: signInUser and signInWithPassword.  auth.pc names *)
(* what the flow awaits; a flow that returns another flow's promise        *)
(* (lines 287, 312 and 165) goes on as that flow.                          *)
(***************************************************************************)

\* no sign-in flow
NoAuth ==
    [pc |-> "idle", phoneIsFunction |-> FALSE, hasEmail |-> FALSE, hasNames |-> FALSE,
     hasPassword |-> FALSE, phoneCode |-> "undefined", termsOfService |-> FALSE,
     errors |-> 0, shouldWeStop |-> FALSE, thrown |-> "nothing"]

\* the flow throws error
AuthThrow(a, error) == [a EXCEPT !.pc = "thrown", !.thrown = error]

\* authParams.onError is called at site
AuthOnError(a, site) == [a EXCEPT !.pc = site, !.errors = @ + 1]

\* the answer of onError is not read, as in line 365: the loop goes on
AfterOnError_AnswerNotRead(a, shouldWeStop, retry) ==
    [a EXCEPT !.shouldWeStop = shouldWeStop, !.pc = retry]

\* what follows the await of authParams.onError: part_004 lines 268-271,
\* 315-318, 357-360 and 677-680; retry is the first await of the loop
AfterOnError(a, shouldWeStop, retry) ==
    IF shouldWeStop
    THEN AuthThrow([a EXCEPT !.shouldWeStop = TRUE], "AUTH_USER_CANCEL")
    ELSE [a EXCEPT !.shouldWeStop = FALSE, !.pc = retry]

\* the first await of each loop: lines 159-177, 277-283, 325-339 and 646-652
AuthLoopTop(a, stage) ==
    CASE stage = "phone" -> IF a.phoneIsFunction THEN "phoneNumber" ELSE "sendCode"
      [] stage = "code" -> "phoneCode"
      [] stage = "registration" -> IF a.hasNames THEN "firstAndLastNames" ELSE "signUp"
      [] stage = "password" -> "getPassword"

\* signInUser(client, apiCredentials, authParams) is called: lines 150-177
SignInUserCall(phoneIsFunction, hasEmail, hasNames, hasPassword) ==
    /\ auth.pc = "idle"
    /\ auth' = [NoAuth EXCEPT !.phoneIsFunction = phoneIsFunction, !.hasEmail = hasEmail,
                              !.hasNames = hasNames, !.hasPassword = hasPassword,
                              !.pc = IF phoneIsFunction THEN "phoneNumber" ELSE "sendCode"]
    /\ UNCHANGED <<engineVars, pVars, iVars, tVars, gVars, qVars>>

\* signInWithPassword(client, apiCredentials, authParams) is called: lines 644-652
SignInWithPasswordCall(hasPassword) ==
    /\ auth.pc = "idle"
    /\ auth' = [NoAuth EXCEPT !.hasPassword = hasPassword, !.pc = "getPassword"]
    /\ UNCHANGED <<engineVars, pVars, iVars, tVars, gVars, qVars>>

\* an await of the first loop of signInUser ends: lines 159-267
PhoneStageResumes(outcome) ==
    LET \* lines 263-267
        Caught(a, error) ==
            IF ~a.phoneIsFunction THEN AuthThrow(a, error)
            ELSE AuthOnError(a, "onErrorPhone")
        Goto(a, pc) == [a EXCEPT !.pc = pc]
        \* line 262 and lines 277-283
        Break(a) == [a EXCEPT !.pc = "phoneCode"]
        Resumed(a) ==
            CASE a.pc = "phoneNumber" ->
                   (CASE outcome = "ok" -> Goto(a, "sendCode")
                      [] outcome = "RESTART_AUTH_WITH_QR" -> Goto(a, "signInUserWithQrCode")
                      [] OTHER -> Caught(a, "error"))
              [] a.pc = "sendCode" ->
                   (CASE outcome = "ok" -> Break(a)
                      [] outcome = "noPhoneCodeHash" ->
                           Caught(a, "Failed to retrieve phone code hash")
                      [] outcome = "emailRequired" ->
                           IF ~a.hasEmail THEN Caught(a, "Email verification required")
                           ELSE Goto(a, "emailAddress")
                      [] outcome = "emailCodeSent" ->
                           IF ~a.hasEmail THEN Caught(a, "Email code sent")
                           ELSE Goto(a, "emailVerificationSent")
                      [] OTHER -> Caught(a, "error"))
              [] a.pc = "emailAddress" ->
                   IF outcome = "ok" THEN Goto(a, "sendVerifyEmailCode") ELSE Caught(a, "error")
              [] a.pc = "sendVerifyEmailCode" ->
                   IF outcome = "ok" THEN Goto(a, "emailVerification") ELSE Caught(a, "error")
              [] a.pc = "emailVerification" ->
                   IF outcome = "ok" THEN Goto(a, "verifyEmail") ELSE Caught(a, "error")
              [] a.pc = "verifyEmail" ->
                   IF outcome = "ok" THEN Break(a) ELSE Caught(a, "error")
              [] a.pc = "emailVerificationSent" ->
                   IF outcome = "ok" THEN Goto(a, "verifyEmailSent") ELSE Caught(a, "error")
              [] a.pc = "verifyEmailSent" ->
                   IF outcome = "ok" THEN Break(a) ELSE Caught(a, "error")
    IN  /\ auth.pc \in {"phoneNumber", "sendCode", "emailAddress", "sendVerifyEmailCode",
                        "emailVerification", "verifyEmail", "emailVerificationSent",
                        "verifyEmailSent"}
        /\ outcome \in {"ok", "throws"}
                       \cup (IF auth.pc = "phoneNumber" THEN {"RESTART_AUTH_WITH_QR"} ELSE {})
                       \cup (IF auth.pc = "sendCode"
                             THEN {"noPhoneCodeHash", "emailRequired", "emailCodeSent"}
                             ELSE {})
        /\ auth' = Resumed(auth)
        /\ auth'.errors <= MaxErrors
        /\ UNCHANGED <<engineVars, pVars, iVars, tVars, gVars, qVars>>

\* the await of onError in the first loop of signInUser ends: lines 268-272
PhoneStageOnError(shouldWeStop) ==
    /\ auth.pc = "onErrorPhone"
    /\ auth' = AfterOnError(auth, shouldWeStop, AuthLoopTop(auth, "phone"))
    /\ UNCHANGED <<engineVars, pVars, iVars, tVars, gVars, qVars>>

\* an await of the second loop of signInUser ends: lines 277-314
CodeStageResumes(outcome) ==
    LET Caught(a) == AuthOnError(a, "onErrorCode")
        \* lines 290-303
        WithCode(a) ==
            IF a.phoneCode # "code" THEN Caught(a) ELSE [a EXCEPT !.pc = "signIn"]
        Resumed(a) ==
            CASE a.pc = "phoneCode" ->
                   (CASE outcome = "ok" -> WithCode([a EXCEPT !.phoneCode = "code"])
                      [] outcome = "empty" -> WithCode([a EXCEPT !.phoneCode = ""])
                      \* line 287: signInUser starts again, with the same authParams
                      [] outcome = "RESTART_AUTH" ->
                           [a EXCEPT !.phoneCode = "undefined", !.termsOfService = FALSE,
                                     !.pc = AuthLoopTop(a, "phone")]
                      \* lines 284-289: any other error of the callback is dropped
                      [] OTHER -> WithCode(a))
              [] a.pc = "signIn" ->
                   (CASE outcome = "ok" -> [a EXCEPT !.pc = "returned"]
                      \* lines 305-309 and 323-339
                      [] outcome \in {"signUpRequired", "signUpRequiredWithTerms"} ->
                           [a EXCEPT !.termsOfService = (outcome = "signUpRequiredWithTerms"),
                                     !.pc = AuthLoopTop(a, "registration")]
                      \* lines 311-312
                      [] outcome = "SESSION_PASSWORD_NEEDED" ->
                           [a EXCEPT !.pc = AuthLoopTop(a, "password")]
                      [] OTHER -> Caught(a))
    IN  /\ auth.pc \in {"phoneCode", "signIn"}
        /\ outcome \in {"ok", "throws"}
                       \cup (IF auth.pc = "phoneCode" THEN {"empty", "RESTART_AUTH"}
                             ELSE {"signUpRequired", "signUpRequiredWithTerms",
                                   "SESSION_PASSWORD_NEEDED"})
        /\ auth' = Resumed(auth)
        /\ auth'.errors <= MaxErrors
        /\ UNCHANGED <<engineVars, pVars, iVars, tVars, gVars, qVars>>

\* the await of onError in the second loop of signInUser ends: lines 315-319
CodeStageOnError(shouldWeStop) ==
    /\ auth.pc = "onErrorCode"
    /\ auth' = AfterOnError(auth, shouldWeStop, AuthLoopTop(auth, "code"))
    /\ UNCHANGED <<engineVars, pVars, iVars, tVars, gVars, qVars>>

\* an await of the third loop of signInUser ends: lines 325-356
RegistrationResumes(outcome) ==
    LET Caught(a) == AuthOnError(a, "onErrorRegistration")
        Resumed(a) ==
            CASE a.pc = "firstAndLastNames" ->
                   IF outcome = "ok" THEN [a EXCEPT !.pc = "signUp"] ELSE Caught(a)
              [] a.pc = "signUp" ->
                   IF outcome # "ok" THEN Caught(a)
                   ELSE IF a.termsOfService THEN [a EXCEPT !.pc = "acceptTermsOfService"]
                   ELSE [a EXCEPT !.pc = "returned"]
              [] a.pc = "acceptTermsOfService" ->
                   IF outcome = "ok" THEN [a EXCEPT !.pc = "returned"] ELSE Caught(a)
    IN  /\ auth.pc \in {"firstAndLastNames", "signUp", "acceptTermsOfService"}
        /\ outcome \in {"ok", "throws"}
                       \cup (IF auth.pc = "firstAndLastNames" THEN {"noFirstName"} ELSE {})
        /\ auth' = Resumed(auth)
        /\ auth'.errors <= MaxErrors
        /\ UNCHANGED <<engineVars, pVars, iVars, tVars, gVars, qVars>>

\* the await of onError in the third loop of signInUser ends: lines 357-361
RegistrationOnError(shouldWeStop) ==
    /\ auth.pc = "onErrorRegistration"
    /\ auth' = AfterOnError(auth, shouldWeStop, AuthLoopTop(auth, "registration"))
    /\ UNCHANGED <<engineVars, pVars, iVars, tVars, gVars, qVars>>

\* an await of the loop of signInWithPassword ends: lines 650-676 and 683-685
PasswordResumes(outcome) ==
    LET Caught(a) == AuthOnError(a, "onErrorPassword")
        Resumed(a) ==
            CASE a.pc = "getPassword" ->
                   IF outcome # "ok" THEN Caught(a)
                   ELSE IF ~a.hasPassword THEN AuthThrow(a, "Account has 2FA enabled.")
                   ELSE [a EXCEPT !.pc = "password"]
              [] a.pc = "password" ->
                   IF outcome = "ok" THEN [a EXCEPT !.pc = "computePasswordSrpCheck"]
                   ELSE Caught(a)
              [] a.pc = "computePasswordSrpCheck" ->
                   IF outcome = "ok" THEN [a EXCEPT !.pc = "checkPassword"] ELSE Caught(a)
              [] a.pc = "checkPassword" ->
                   IF outcome = "ok" THEN [a EXCEPT !.pc = "returned"] ELSE Caught(a)
    IN  /\ auth.pc \in {"getPassword", "password", "computePasswordSrpCheck", "checkPassword"}
        /\ outcome \in {"ok", "throws"} \cup (IF auth.pc = "password" THEN {"empty"} ELSE {})
        /\ auth' = Resumed(auth)
        /\ auth'.errors <= MaxErrors
        /\ UNCHANGED <<engineVars, pVars, iVars, tVars, gVars, qVars>>

\* the await of onError in signInWithPassword ends: lines 677-681
PasswordOnError(shouldWeStop) ==
    /\ auth.pc = "onErrorPassword"
    /\ auth' = AfterOnError(auth, shouldWeStop, AuthLoopTop(auth, "password"))
    /\ UNCHANGED <<engineVars, pVars, iVars, tVars, gVars, qVars>>

AuthIdle == auth = NoAuth

AuthOutcomes ==
    {"ok", "throws", "empty", "noFirstName", "noPhoneCodeHash", "emailRequired",
     "emailCodeSent", "signUpRequired", "signUpRequiredWithTerms",
     "RESTART_AUTH", "RESTART_AUTH_WITH_QR", "SESSION_PASSWORD_NEEDED"}

AuthNext ==
    \/ \E phoneIsFunction, hasEmail, hasNames, hasPassword \in BOOLEAN :
          SignInUserCall(phoneIsFunction, hasEmail, hasNames, hasPassword)
    \/ \E hasPassword \in BOOLEAN : SignInWithPasswordCall(hasPassword)
    \/ \E outcome \in AuthOutcomes : PhoneStageResumes(outcome)
    \/ \E shouldWeStop \in BOOLEAN : PhoneStageOnError(shouldWeStop)
    \/ \E outcome \in AuthOutcomes : CodeStageResumes(outcome)
    \/ \E shouldWeStop \in BOOLEAN : CodeStageOnError(shouldWeStop)
    \/ \E outcome \in AuthOutcomes : RegistrationResumes(outcome)
    \/ \E shouldWeStop \in BOOLEAN : RegistrationOnError(shouldWeStop)
    \/ \E outcome \in AuthOutcomes : PasswordResumes(outcome)
    \/ \E shouldWeStop \in BOOLEAN : PasswordOnError(shouldWeStop)

(***************************************************************************)
(* attempts and timeout (CTR.ts): the probes of one tick of _updateLoop.   *)
(* Every timeout call races the probe cb() against sleep(ms); the probe    *)
(* and the timer both stay alive after the race is settled.                *)
(***************************************************************************)

\* timeout(cb, ms) is called: cb() and sleep(ms) start, isResolved is false.
\* op is the promise of cb(), timer the timer of sleep(ms), sleepThen the
\* promise of sleep(ms).then(...), result the promise timeout returns and
\* atExpiry what op was when the timer fired.
TimeoutCall ==
    /\ \/ race.pc = "idle" /\ race.times > 0
       \/ race.pc = "pausing"
    /\ race' = [race EXCEPT
           !.pc = "racing",
           !.i = IF race.pc = "idle" THEN 0 ELSE @ + 1,
           !.calls = Append(@, [op |-> "pending", timer |-> "pending",
                                isResolved |-> FALSE, result |-> "pending",
                                sleepThen |-> "pending", atExpiry |-> "none"])]
    /\ UNCHANGED <<engineVars, pVars, iVars, aVars, gVars, qVars>>

\* what the caller does when the race of its call ends: attempts returns the
\* value, or catches the error and throws it after the last try, or pauses
AfterRace(rc, outcome) ==
    IF outcome = "pong"
    THEN [rc EXCEPT !.pc = "returned"]
    ELSE IF rc.i = rc.times - 1
    THEN [rc EXCEPT !.pc = "thrown", !.err = outcome]
    ELSE [rc EXCEPT !.pc = "pausing"]

\* the timer of call k fires whatever isResolved says
TimeoutSleepDone_NoFlag(k) ==
    /\ k \in 1..Len(race.calls)
    /\ race.calls[k].timer = "pending"
    /\ \A j \in 1..(k - 1) : race.calls[j].timer = "fired"
    /\ LET call == race.calls[k]
           fired == [call EXCEPT !.timer = "fired", !.atExpiry = call.op,
                                 !.sleepThen = "TIMEOUT"]
       IN  race' = IF call.result = "pending"
                   THEN AfterRace([race EXCEPT !.calls[k] =
                                      [fired EXCEPT !.result = "TIMEOUT",
                                                    !.isResolved = TRUE]],
                                  "TIMEOUT")
                   ELSE [race EXCEPT !.calls[k] = fired]
    /\ UNCHANGED <<engineVars, pVars, iVars, aVars, gVars, qVars>>

\* the promise of cb() of call k settles: the race takes its outcome if the
\* race is still open, and finally sets isResolved
TimeoutCbSettles(k, how) ==
    /\ k \in 1..Len(race.calls)
    /\ race.calls[k].op = "pending"
    /\ LET call == race.calls[k]
           settled == [call EXCEPT !.op = how]
       IN  race' = IF call.result = "pending"
                   THEN AfterRace([race EXCEPT !.calls[k] =
                                      [settled EXCEPT
                                          !.result = IF how = "fulfilled"
                                                     THEN "pong" ELSE "error",
                                          !.isResolved = TRUE]],
                                  IF how = "fulfilled" THEN "pong" ELSE "error")
                   ELSE [race EXCEPT !.calls[k] = settled]
    /\ UNCHANGED <<engineVars, pVars, iVars, aVars, gVars, qVars>>

\* sleep(ms) of call k is over (the timers of the calls made before it have
\* fired, their ms being the same): the then callback gives undefined when
\* isResolved is set and rejects with TIMEOUT when it is not, and that
\* rejection settles the race, after which finally sets isResolved
TimeoutSleepDone(k) ==
    /\ k \in 1..Len(race.calls)
    /\ race.calls[k].timer = "pending"
    /\ \A j \in 1..(k - 1) : race.calls[j].timer = "fired"
    /\ LET call == race.calls[k]
           fired == [call EXCEPT !.timer = "fired", !.atExpiry = call.op,
                                 !.sleepThen = IF call.isResolved
                                               THEN "undefined" ELSE "TIMEOUT"]
       IN  race' = IF ~call.isResolved
                   THEN AfterRace([race EXCEPT !.calls[k] =
                                      [fired EXCEPT !.result = "TIMEOUT",
                                                    !.isResolved = TRUE]],
                                  "TIMEOUT")
                   ELSE [race EXCEPT !.calls[k] = fired]
    /\ UNCHANGED <<engineVars, pVars, iVars, aVars, gVars, qVars>>

\* no probe is made
TimeoutIdle ==
    race = [pc |-> "idle", times |-> 0, ms |-> 0, i |-> 0, err |-> "none",
            calls |-> << >>]

TimeoutNext ==
    \/ TimeoutCall
    \/ \E k \in 1..PING_FAIL_ATTEMPTS, how \in {"fulfilled", "rejected"} :
          TimeoutCbSettles(k, how)
    \/ \E k \in 1..PING_FAIL_ATTEMPTS : TimeoutSleepDone(k)

(***************************************************************************)
(* src/teleproto/events/InlineQuery.ts: InlineQueryEvent.answer.  One      *)
(* event, whose answer method the application calls up to MaxAnswers       *)
(* times, without waiting for the calls made before.                       *)
(***************************************************************************)

\* answer() is called: lines 483-533, up to the await.  tooMany: more than
\* 50 results are given.  sent counts the SetInlineBotResults requests given
\* to client.invoke
AnswerCall(c, tooMany) ==
    /\ inline.calls[c] = "idle"
    /\ inline' =
          IF ~inline.client \/ ~inline.queryId \/ inline.answered
          THEN [inline EXCEPT !.calls[c] = "false"]
          ELSE IF tooMany
          THEN [inline EXCEPT !.calls[c] = "thrown"]
          ELSE [inline EXCEPT !.calls[c] = "invoke", !.sent = @ + 1]
    /\ UNCHANGED <<engineVars, pVars, iVars, aVars, tVars, gVars>>

\* the await of client.invoke ends: lines 522-538.  succeeded counts the
\* requests that were answered without an error
AnswerInvokeDone(c, ok) ==
    /\ inline.calls[c] = "invoke"
    /\ inline' =
          IF ok
          THEN [inline EXCEPT !.calls[c] = "true", !.answered = TRUE,
                              !.succeeded = @ + 1]
          ELSE [inline EXCEPT !.calls[c] = "false"]
    /\ UNCHANGED <<engineVars, pVars, iVars, aVars, tVars, gVars>>

InlineNext ==
    \/ \E c \in 1 .. MaxAnswers, tooMany \in BOOLEAN : AnswerCall(c, tooMany)
    \/ \E c \in 1 .. MaxAnswers, ok \in BOOLEAN : AnswerInvokeDone(c, ok)

\* the components added last are at rest: parseTl of generationHelpers.js
\* is not called, and there is no inline query
OthersIdle ==
    /\ gen = [pc |-> "idle", objAll |-> << >>, error |-> [kind |-> "nothing", line |-> << >>]]
    /\ inline = [client |-> FALSE, queryId |-> FALSE, answered |-> FALSE,
                 calls |-> [c \in 1 .. MaxAnswers |-> "idle"], sent |-> 0, succeeded |-> 0]

\* nothing outside the update engine runs
OutsideIdle == ParserIdle /\ IgeIdle /\ AuthIdle /\ TimeoutIdle /\ OthersIdle

\* everything of the update engine at rest
EngineIdle == DispatchIdle /\ CatchUpIdle /\ RegistryIdle /\ LoopIdle

\* the schema parser alone
InitParser == ParserInit /\ IgeIdle /\ AuthIdle /\ TimeoutIdle /\ OthersIdle /\ EngineIdle

SpecParser == InitParser /\ [][ParserNext]_vars

\* an IGE instance alone
InitIge == IgeIdle /\ ParserIdle /\ AuthIdle /\ TimeoutIdle /\ OthersIdle /\ EngineIdle

SpecIge == InitIge /\ [][IgeNext]_vars

\* a sign-in flow alone
InitAuth == OutsideIdle /\ EngineIdle

SpecAuth == InitAuth /\ [][AuthNext]_vars

\* the probes of one tick alone
\* (the two ways _updateLoop probes: attempts(() => timeout(ping,
\* PING_TIMEOUT), PING_FAIL_ATTEMPTS, PING_FAIL_INTERVAL), and
\* timeout(ping, PING_WAKE_UP_TIMEOUT) on its own)
InitTimeout ==
    /\ race \in {[pc |-> "idle", times |-> w[1], ms |-> w[2], i |-> 0,
                  err |-> "none", calls |-> << >>] :
                    w \in {<<PING_FAIL_ATTEMPTS, PING_TIMEOUT>>,
                           <<1, PING_WAKE_UP_TIMEOUT>>}}
    /\ ParserIdle /\ IgeIdle /\ AuthIdle /\ OthersIdle /\ EngineIdle

SpecTimeout == InitTimeout /\ [][TimeoutNext]_vars

\* one inline query event as its constructor leaves it (lines 356-367), given
\* to a handler with or without a client
InitInline ==
    /\ inline \in {[client |-> cl, queryId |-> TRUE, answered |-> FALSE,
                     calls |-> [c \in 1 .. MaxAnswers |-> "idle"], sent |-> 0,
                     succeeded |-> 0] : cl \in BOOLEAN}
    /\ gen = [pc |-> "idle", objAll |-> << >>, error |-> [kind |-> "nothing", line |-> << >>]]
    /\ ParserIdle /\ IgeIdle /\ AuthIdle /\ TimeoutIdle /\ EngineIdle

SpecInline == InitInline /\ [][InlineNext]_vars

\* the two schema parsers, one after the other on the same text
InitTwoParsers == ParserInit /\ IgeIdle /\ AuthIdle /\ TimeoutIdle /\ OthersIdle /\ EngineIdle

SpecTwoParsers == InitTwoParsers /\ [][ParserNext \/ GenerationHelpersParseTl]_vars

\* the keepalive loop alone
InitLoop == LoopInit /\ DispatchInit /\ RegistryIdle /\ OutsideIdle

SpecLoop == InitLoop /\ [][LoopNext]_vars

\* catchUp called by the reconnect path on a client that has a sync state and
\* whose keepalive loop runs; the rest of the client is quiet (connected, not
\* destroyed, no error handler, no event handler)
InitSync ==
    /\ updateState = SyncedState
    /\ script \in SeqsUpTo(DiffKinds, MaxSyncScript)
    /\ nserved = 0
    /\ ncalls = 0
    /\ cu = [c \in Calls |-> IdleCall]
    /\ destroyed = FALSE
    /\ isReconnecting = FALSE
    /\ isSwitchingDc = FALSE
    /\ disconnected = FALSE
    /\ loop = NewLoop
    /\ nticks = 0
    /\ lastSignal = "none"
    /\ DispatchIdle
    /\ RegistryIdle
    /\ OutsideIdle

\* client._lastRequest (line 517) is written outside this file, by
\* client.invoke: a request of catchUp makes it recent.  The loop finds the
\* last request older than 30 minutes only as long as catchUp has sent none.
SyncNext ==
    \/ \E c \in {"reconnect"} :
          \/ CatchUpCall(c) /\ UNCHANGED <<dVars, rVars, lVars, xVars>>
          \/ CatchUpInvokeFails(c) /\ UNCHANGED <<dVars, rVars, lVars, xVars>>
          \/ CatchUpEmpty(c) /\ UNCHANGED <<dVars, rVars, lVars, xVars>>
          \/ CatchUpTooLong(c) /\ UNCHANGED <<dVars, rVars, lVars, xVars>>
          \/ CatchUpProcess(c) /\ UNCHANGED <<dVars, rVars, lVars, xVars>>
          \/ CatchUpAdopt(c) /\ UNCHANGED <<dVars, rVars, lVars, xVars>>
    \/ nticks < MaxSyncTicks /\ LoopTick
    \/ \E outcome \in {"pong", "error", "timeout"}, stale \in BOOLEAN :
          (stale => ncalls = 0) /\ LoopProbeDone(outcome, stale)
    \/ LoopPauseDone
    \/ LoopWarn
    \/ \E outcome \in {"pong", "error", "timeout"}, stale \in BOOLEAN :
          (stale => ncalls = 0) /\ LoopWakeDone(outcome, stale)
    \/ \E ok \in BOOLEAN : LoopRefreshDone(ok)

SpecSync == InitSync /\ [][SyncNext]_vars

\* the registry alone
InitRegistry == DispatchIdle /\ CatchUpIdle /\ RegistryIdle /\ LoopIdle /\ OutsideIdle

SpecRegistry == InitRegistry /\ [][RegistryNext]_vars

\* one container of updates given to a client with one registered handler
\* whose builder is resolved
InitContainer ==
    /\ eventBuilders = Pushed(<< >>, 1, 1)
    /\ rounds = [r \in Slots |-> FreeRound]
    /\ nraw = 0
    /\ cur = NoOne
    /\ hu = IdleHandleUpdate
    /\ resolved = {1}
    /\ selfPeer \in BOOLEAN
    /\ errorHandlerSet \in BOOLEAN
    /\ CatchUpIdle /\ RegistryIdle /\ LoopIdle /\ OutsideIdle

SpecContainer == InitContainer /\ [][ContainerNext]_vars

\* updates that arrive and are dispatched
InitDispatch == DispatchInit /\ CatchUpIdle /\ RegistryIdle /\ LoopIdle /\ OutsideIdle

SpecDispatch == InitDispatch /\ [][DispatchNext]_vars

\* catchUp alone
InitCatchUp == CatchUpInit /\ DispatchIdle /\ RegistryIdle /\ LoopIdle /\ OutsideIdle

SpecCatchUp == InitCatchUp /\ [][CatchUpNext]_vars

(***************************************************************************)
(* Claims about catchUp.                                                   *)
(***************************************************************************)
Kinds(r) == [i \in 1 .. Len(r) |-> r[i].kind]

Last(q) == q[Len(q)]

\* the entries of a call's log that are updates handed to _processUpdate
Handed(log) == SelectSeq(log, LAMBDA e : e.t \in {"msg", "upd"})

\* the handed entries that come from answer d
HandedOf(log, d) == SelectSeq(Handed(log), LAMBDA e : e.v \div 100 = d.n)

\* what the answer d should hand out: its Message and MessageService
\* messages, then its other updates, each once and in list order
Deliverable(d) ==
    LET ms == SelectSeq(Diff(d).newMessages,
                        LAMBDA m : m.cls = "Message" \/ m.cls = "MessageService")
    IN  [i \in 1 .. Len(ms) + Len(Diff(d).otherUpdates) |->
            IF i <= Len(ms) THEN [t |-> "msg", v |-> ms[i].id]
            ELSE [t |-> "upd", v |-> Diff(d).otherUpdates[i - Len(ms)]]]

\* every message, whatever its class, then the other updates
Everything(d) ==
    [i \in 1 .. Len(Diff(d).newMessages) + Len(Diff(d).otherUpdates) |->
        IF i <= Len(Diff(d).newMessages)
        THEN [t |-> "msg", v |-> Diff(d).newMessages[i].id]
        ELSE [t |-> "upd", v |-> Diff(d).otherUpdates[i - Len(Diff(d).newMessages)]]]

C2_CatchUpSerialized ==
    Cardinality({ c \in Calls : cu[c].pc \notin {"idle", "done"} }) <= 1

\* the step in which call c takes an answer of kind k
Receives(c, k) ==
    /\ cu[c].pc = "wait_diff"
    /\ Len(cu'[c].recv) = Len(cu[c].recv) + 1
    /\ Last(cu'[c].recv).kind = k

\* C3: when a call receives TooLong, pts becomes the answer's pts, qts, date
\* and seq keep their values, nothing is handed to dispatch, and the call ends
\* without another GetDifference request.
C3_TooLongStep ==
    [][ \A c \in Calls :
          Receives(c, "TooLong") =>
             /\ updateState'.pts = Diff(Last(cu'[c].recv)).st.pts
             /\ updateState'.qts = updateState.qts
             /\ updateState'.date = updateState.date
             /\ updateState'.seq = updateState.seq
             /\ \A b \in Calls : cu'[b].out = cu[b].out
             /\ \A b \in Calls : cu'[b].reqs = cu[b].reqs
             /\ cu'[c].pc = "done" ]_cuVars

C3_Witness ==
    \E c \in Calls :
        /\ cu[c].pc = "done"
        /\ cu[c].recv # << >>
        /\ Last(cu[c].recv).kind = "TooLong"
        /\ updateState.pts = Diff(Last(cu[c].recv)).st.pts
        /\ updateState.qts = SyncedState.qts

\* C4: an exception in catchUp (state query, GetDifference request, or the
\* processing of a difference) is caught: in the step that raises it the call
\* ends, returns normally, sends no request and leaves the sync state as it
\* was; no call ever fails to its caller.
C4_NeverFails ==
    /\ [](\A c \in Calls : cu[c].result # "rejected" /\ (cu[c].threw => cu[c].pc = "done"))
    /\ [][ \A c \in Calls :
            (~cu[c].threw /\ cu'[c].threw) =>
               /\ cu'[c].pc = "done"
               /\ cu'[c].result = "resolved"
               /\ updateState' = updateState
               /\ cu'[c].endState = updateState
               /\ cu'[c].reqs = cu[c].reqs ]_cuVars

\* a call whose processing of a slice threw, after an earlier slice was adopted
C4_Witness ==
    \E c \in Calls :
        /\ cu[c].threw
        /\ cu[c].result = "resolved"
        /\ Kinds(cu[c].recv) = << "Slice", "Slice" >>
        /\ updateState = Diff(cu[c].recv[1]).st

\* C19 as stated: after a Slice answer the sync state is the slice's
\* intermediate state and another GetDifference request with its pts, date and
\* qts is sent, and no request follows an Empty, Full or TooLong answer, so a
\* call that has ended sent exactly one request more than it received Slice
\* answers.
C19_SlicesPlusOne ==
    \A c \in Calls :
        (cu[c].pc = "done" /\ cu[c].reqs # << >>) =>
            Len(cu[c].reqs) = Len(SelectSeq(cu[c].recv, LAMBDA d : d.kind = "Slice")) + 1

\* C19 (amended): when a call resumes after the processing of a Slice answer
\* (no exception), the sync state becomes the slice's intermediate state and
\* the call sends another GetDifference request with that pts, date and qts.
\* A call sends one request when it starts on a client that has a sync state
\* (none on a client that has none) and one after each such slice, and no
\* other: none after an Empty, Full or TooLong answer, none after an answer
\* whose processing throws.
C19_SliceStep ==
    [][ \A c \in Calls :
          /\ (cu[c].pc = "adopt" /\ Diff(cu[c].diff).kind = "Slice" /\ cu'[c] # cu[c]) =>
                /\ updateState' = Diff(cu[c].diff).st
                /\ cu'[c].pc = "wait_diff"
                /\ cu'[c].reqs = Append(cu[c].reqs,
                                        [pts |-> Diff(cu[c].diff).st.pts,
                                         date |-> Diff(cu[c].diff).st.date,
                                         qts |-> Diff(cu[c].diff).st.qts])
          /\ (ncalls' = ncalls /\ cu'[c].reqs # cu[c].reqs) =>
                (cu[c].pc = "adopt" /\ Diff(cu[c].diff).kind = "Slice")
          /\ (cu[c].pc \in {"idle", "done"} /\ cu'[c].pc \notin {"idle", "done"}) =>
                cu'[c].reqs = IF updateState = NoState THEN << >>
                              ELSE << [pts |-> updateState.pts, date |-> updateState.date,
                                       qts |-> updateState.qts] >> ]_cuVars

\* a call has adopted a slice and waits for the answer to its second request
C19_Witness ==
    \E c \in Calls :
        /\ cu[c].pc = "wait_diff"
        /\ Kinds(cu[c].recv) = << "Slice" >>
        /\ Len(cu[c].reqs) = 2
        /\ cu[c].reqs[2].pts = Diff(cu[c].recv[1]).st.pts
        /\ updateState = Diff(cu[c].recv[1]).st

\* C20: when a call receives Empty, date and seq become the answer's date and
\* seq, pts and qts keep their values, nothing is handed to dispatch, and the
\* call ends without another GetDifference request.
C20_EmptyStep ==
    [][ \A c \in Calls :
          Receives(c, "Empty") =>
             /\ updateState'.date = Diff(Last(cu'[c].recv)).st.date
             /\ updateState'.seq = Diff(Last(cu'[c].recv)).st.seq
             /\ updateState'.pts = updateState.pts
             /\ updateState'.qts = updateState.qts
             /\ \A b \in Calls : cu'[b].out = cu[b].out
             /\ \A b \in Calls : cu'[b].reqs = cu[b].reqs
             /\ cu'[c].pc = "done"
             /\ cu'[c].result = "resolved" ]_cuVars

\* a call on an initialized client has ended on an Empty answer
C20_Witness ==
    \E c \in Calls :
        /\ cu[c].pc = "done"
        /\ cu[c].recv # << >>
        /\ Last(cu[c].recv).kind = "Empty"
        /\ updateState.date = Diff(Last(cu[c].recv)).st.date
        /\ updateState.seq = Diff(Last(cu[c].recv)).st.seq
        /\ updateState.pts = SyncedState.pts
        /\ updateState.qts = SyncedState.qts
        /\ cu[c].out = << >>

\* what a step appends to a log
Appended(before, after) == SubSeq(after, Len(before) + 1, Len(after))

\* C21: in the step in which a call takes a Full or Slice answer, what is done
\* is, in this order: the entity cache is given the answer, the session is
\* given the answer, each new message that is a Message or a MessageService is
\* handed to dispatch as a synthetic new-message update in list order, then
\* the other updates are handed to dispatch in list order (an entity store
\* that throws ends the step before anything is handed out); the sync state is
\* not written in that step, and it is replaced by the answer's state only in
\* a later step of a call whose log already ends with that fan-out.
C21_EntitiesMessagesUpdatesState ==
    [][ \A c \in Calls :
          /\ (Receives(c, "Full") \/ Receives(c, "Slice")) =>
                /\ updateState' = updateState
                /\ \/ /\ cu'[c].pc = "adopt"
                      /\ Appended(cu[c].out, cu'[c].out)
                            = << [t |-> "cache", v |-> 0], [t |-> "session", v |-> 0] >>
                              \o Deliverable(Last(cu'[c].recv))
                   \/ /\ cu'[c].threw
                      /\ Appended(cu[c].out, cu'[c].out)
                            \in { << >>, << [t |-> "cache", v |-> 0] >> }
          /\ (ncalls' = ncalls /\ cu'[c].out # cu[c].out) =>
                (Receives(c, "Full") \/ Receives(c, "Slice"))
          /\ (cu[c].pc = "adopt" /\ cu'[c] # cu[c]) =>
                /\ updateState' = Diff(Last(cu[c].recv)).st
                /\ Len(cu[c].out) >= Len(Deliverable(Last(cu[c].recv)))
                /\ Appended(SubSeq(cu[c].out, 1,
                                   Len(cu[c].out) - Len(Deliverable(Last(cu[c].recv)))),
                            cu[c].out)
                      = Deliverable(Last(cu[c].recv)) ]_cuVars

\* a call has processed a Full answer and has not written the sync state yet
C21_Witness ==
    \E c \in Calls :
        /\ cu[c].pc = "adopt"
        /\ Last(cu[c].recv).kind = "Full"
        /\ Len(Handed(cu[c].out)) = 4
        /\ updateState = SyncedState

\* C22: a call that starts on a client without a sync state sends the state
\* query and no GetDifference request; its next step ends it: either the
\* answer arrives, pts, qts, date and seq are set from the answer and the call
\* returns, or the query fails, the sync state is not written and the call
\* returns; in both cases no GetDifference request was sent and no answer to
\* one was taken.  With one call only, a failed query leaves the client
\* without a sync state.
C22_FirstCallInitializes ==
    /\ [](\A c \in Calls :
            (ncalls = 1 /\ cu[c].pc = "done" /\ cu[c].threw /\ cu[c].reqs = << >>)
               => updateState = NoState)
    /\ [][ \A c \in Calls :
            /\ (cu[c].pc \in {"idle", "done"} /\ cu'[c].pc \notin {"idle", "done"}
                   /\ updateState = NoState) =>
                  (cu'[c].pc = "wait_state" /\ cu'[c].reqs = << >> /\ updateState' = NoState)
            /\ (cu[c].pc = "wait_state" /\ cu'[c] # cu[c]) =>
                  /\ cu'[c].pc = "done"
                  /\ cu'[c].result = "resolved"
                  /\ cu'[c].reqs = << >>
                  /\ cu'[c].recv = << >>
                  /\ cu'[c].out = << >>
                  /\ script' = script
                  /\ IF cu'[c].threw
                     THEN updateState' = updateState
                     ELSE /\ updateState'.pts = ServerState.pts
                          /\ updateState'.qts = ServerState.qts
                          /\ updateState'.date = ServerState.date
                          /\ updateState'.seq = ServerState.seq ]_cuVars

\* a call on a client without a sync state has created the state and returned
C22_Witness ==
    \E c \in Calls :
        /\ ncalls = 1
        /\ cu[c].pc = "done"
        /\ ~cu[c].threw
        /\ cu[c].reqs = << >>
        /\ updateState = ServerState

\* a call has sent a GetDifference request and has not yet written the state
\* that follows its answer, or ended
InProgress(c) == cu[c].pc \in {"wait_diff", "adopt"}

\* C23 as stated: while a catchUp call is between a GetDifference request and
\* the state write that follows its answer, the step that ends the keepalive
\* loop's state refresh does not write pts, qts, date or seq.
C23_RefreshNotDuringCatchUp ==
    [][ ((\E c \in Calls : InProgress(c)) /\ loop.pc = "refresh" /\ loop'.pc # "refresh")
           => updateState' = updateState ]_vars

(***************************************************************************)
(* Claims about dispatch.                                                  *)
(***************************************************************************)
\* a round begins in slot r
Begins(r) == Ended(rounds[r]) /\ ~Ended(rounds'[r])

\* C5: in one dispatch round, when a callback throws StopPropagation the round
\* is over: no later pair of that round is visited (the round is ended with
\* the pairs after the stopping one left, and stays so until its slot holds
\* the round of another update).  The round of another update is not touched
\* by the stop, begins at the first pair of the registry, and ends normally
\* only when it has visited every pair.
C5_StopPropagation ==
    /\ [](\A r \in Slots :
            /\ rounds[r].last = "stop" => rounds[r].pc = "stopped"
            /\ rounds[r].pc = "done" => rounds[r].left = 0)
    /\ [][\A r \in Slots :
            /\ rounds[r].pc = "stopped" => rounds'[r] = rounds[r] \/ Begins(r)
            /\ Begins(r) =>
                 /\ rounds'[r].pc = "top" /\ rounds'[r].i = 1
                 /\ rounds'[r].view = eventBuilders
            /\ (rounds[r].pc # "stopped" /\ rounds'[r].pc = "stopped") =>
                 \A q \in Slots \ {r} : rounds'[q] = rounds[q]]_dVars

\* a round was stopped before its last pair, and the round of a later update
\* has just begun, at the first of two or more pairs
C5_Witness ==
    \E q \in Slots, r \in Slots :
        /\ q # r
        /\ rounds[q].pc = "stopped" /\ rounds[q].last = "stop" /\ rounds[q].left > 0
        /\ rounds[r].pc = "top" /\ rounds[r].i = 1 /\ cur = r
        /\ Len(rounds[r].view) >= 2

\* C6: a round in which a callback threw an error other than StopPropagation
\* still visits every pair after the failing one, whatever the global error
\* handler does: no round ends with pairs left unless a callback stopped it.
C6_ErrorDoesNotEndRound ==
    \A r \in Slots : rounds[r].pc \in {"done", "rejected"} => rounds[r].left = 0

\* C7: a round works on the registry as it was when the round began: the
\* callback of a pair added after the round began is not invoked in it.
C7_PointInTimeView ==
    \A r \in Slots : rounds[r].pc = "callback" => rounds[r].i <= rounds[r].nstart

\* C9: a failure in one inner update of a container never keeps the inner
\* updates after it from being dispatched.
C9_NoInnerUpdateLost == hu.lost = 0

\* the round in slot r moves (to another statement or another pair)
Moves(r) == rounds'[r].pc # rounds[r].pc \/ rounds'[r].i # rounds[r].i

\* C25: a round visits the pairs of its array in order, one after the other;
\* the filter of a pair is called only with the event its builder has just
\* produced, and the callback of a pair is called only when the filter of
\* that pair has just accepted; after build or filter the round either goes
\* on with the same pair or, on undefined, an exception or a rejection, goes
\* to the head of the loop for the next pair: it does not end there.
C25_OrderBuildFilterCallback ==
    /\ [](\A r \in Slots :
            /\ rounds[r].pc = "filter" => rounds[r].last = "event"
            /\ rounds[r].pc = "callback" => rounds[r].last = "accept")
    /\ [][\A r \in Slots :
            /\ (Moves(r) /\ rounds'[r].pc = "callback") =>
                  (rounds[r].pc = "filter" /\ rounds'[r].i = rounds[r].i)
            /\ (Moves(r) /\ rounds'[r].pc = "filter") =>
                  (rounds[r].pc = "build" /\ rounds'[r].i = rounds[r].i)
            /\ (Moves(r) /\ rounds[r].pc \in {"build", "filter"}) =>
                  \/ rounds'[r].pc \in {"filter", "callback"} /\ rounds'[r].i = rounds[r].i
                  \/ rounds'[r].pc = "top" /\ rounds'[r].i = rounds[r].i + 1
            /\ (Moves(r) /\ ~Ended(rounds[r]) /\ ~Ended(rounds'[r])) =>
                  rounds'[r].i \in {rounds[r].i, rounds[r].i + 1}]_dVars

\* a round calls the callback of the second pair of its array
C25_Witness ==
    \E r \in Slots :
        /\ rounds[r].pc = "callback"
        /\ rounds[r].i = 2
        /\ rounds[r].last = "accept"

\* the round in slot r has called resolve of builder b and awaits it
Resolving(r, b) ==
    /\ rounds[r].pc = "resolve"
    /\ rounds[r].view[rounds[r].i][1] = b

\* C26 as stated: the resolve operation of a builder is started once, also
\* when several rounds reach the unresolved builder while its first resolution
\* is pending: no two rounds await resolve of the same builder at a time.
C26_ResolveStartedOnce ==
    \A b \in Builders \cup {RawBuilder(n) : n \in 0 .. MaxRaw} :
        Cardinality({ r \in Slots : Resolving(r, b) }) <= 1

\* C27 as stated, its first condition: a round awaits client.getMe only if its
\* update is not a connection-state update.
C27_GetMeNotForConnectionState ==
    \A r \in Slots : rounds[r].pc = "getme" => ~rounds[r].conn

\* C28: a _handleUpdate call that was given a signal of -1, 0 or 1 has given
\* nothing to the entity cache or the session and hands on one update, the
\* connection-state update of that number, and the round of a
\* connection-state update begins as the first and only one of such a call; a
\* call that was given a decoded update hands on no connection-state update,
\* and when a round begins for one of its updates the entity cache and then
\* the session have been given the update.
C28_SignalBypassesEntities ==
    /\ [](hu.active =>
            \/ /\ hu.entities = << >>
               /\ hu.signal \in ConnectionSignals
               /\ hu.inner = << UpdateConnectionState(hu.signal) >>
            \/ /\ hu.entities = << "cache", "session" >>
               /\ \A k \in 1 .. Len(hu.inner) : hu.inner[k] \in {"ok", "bad"})
    /\ [][\A r \in Slots :
            Begins(r) =>
               /\ hu.active
               /\ IF rounds'[r].conn
                  THEN hu.entities = << >> /\ hu.k = 0 /\ Len(hu.inner) = 1
                  ELSE hu.entities = << "cache", "session" >>]_dVars

\* the round of the signal -1 has begun
C28_Witness ==
    /\ hu.active
    /\ hu.signal = 0 - 1
    /\ hu.entities = << >>
    /\ hu.k = 1
    /\ \E r \in Slots : rounds[r].pc = "top" /\ rounds[r].conn /\ cur = r

\* _handleUpdate returns after it has handed on every decoded update it was
\* given (no connection signal)
ReturnsAfterLiveUpdates ==
    /\ hu.active /\ ~hu'.active
    /\ hu.entities # << >>
    /\ hu.k = Len(hu.inner) /\ hu.k > 0

\* C24 as stated: the client is synced and the decoded updates given to
\* _handleUpdate declare a contiguous pts advance (the first declares the pts
\* after the one of the sync state, each next one the pts after; ptsCount 1);
\* when _handleUpdate has handed them all to dispatch and returns, the pts of
\* the sync state is the pts the last of them declares.
C24_LiveUpdateAdvancesPts ==
    [][ ReturnsAfterLiveUpdates =>
           (updateState # NoState /\ updateState'.pts = updateState.pts + Len(hu.inner)) ]_vars

\* C34 as stated: for one registered handler whose builder is resolved, the
\* callback invocations for the inner updates of one container begin in the
\* order of the updates: when the callback begins for the first inner update
\* (the round of slot 1), it has not yet begun for the second (slot 2).
C34_CallbacksBeginInOrder ==
    [][ (rounds[1].pc # "callback" /\ rounds'[1].pc = "callback")
        => rounds[2].pc \notin {"callback", "errh"} ]_dVars

(***************************************************************************)
(* Claims about the registry.                                              *)
(***************************************************************************)
\* new holds, in the order of old, the items of old that match neither the
\* event nor the callback, and nothing else
KeptInOrder(old, new, callback, event) ==
    \E g \in [1 .. Len(new) -> 1 .. Len(old)] :
        /\ \A j \in 1 .. Len(new), k \in 1 .. Len(new) : j < k => g[j] < g[k]
        /\ \A j \in 1 .. Len(new) : new[j] = old[g[j]]
        /\ \A n \in 1 .. Len(old) :
              (old[n][1] # event /\ old[n][2] # callback) => \E j \in 1 .. Len(new) : g[j] = n

\* C8: after removeEventHandler(callback, event) the registry holds no pair
\* with that builder and no pair with that callback, and the pairs that remain
\* are all the others in their former order; addEventHandler leaves the
\* former pairs in place and puts the new pair, with the callback and the
\* event given, after them.
C8_RemoveEitherAddAppends ==
    /\ regLast.op = "remove" =>
         /\ \A k \in 1 .. Len(eventBuilders) :
               /\ eventBuilders[k][1] # regLast.event
               /\ eventBuilders[k][2] # regLast.callback
         /\ KeptInOrder(regLast.before, eventBuilders, regLast.callback, regLast.event)
    /\ regLast.op = "add" =>
         /\ Len(eventBuilders) = Len(regLast.before) + 1
         /\ SubSeq(eventBuilders, 1, Len(regLast.before)) = regLast.before
         /\ Last(eventBuilders)[2] = regLast.callback
         /\ regLast.event # Undefined => Last(eventBuilders)[1] = regLast.event

\* of three pairs one was removed because its builder alone matched, and the
\* two that remain are different pairs
C8_Witness ==
    /\ regLast.op = "remove"
    /\ Len(regLast.before) = 3
    /\ Len(eventBuilders) = 2
    /\ eventBuilders[1] # eventBuilders[2]
    /\ \E n \in 1 .. 3 :
          regLast.before[n][1] = regLast.event /\ regLast.before[n][2] # regLast.callback

(***************************************************************************)
(* Claims about the keepalive loop.                                        *)
(***************************************************************************)
\* the step in which sleep(PING_INTERVAL) returns
IsTick == nticks' = nticks + 1

\* C10 as stated: on every tick, reconnecting or switching datacenter means no
\* probe and the loop stays; disconnected and not reconnecting means the loop
\* exits without a probe; a probe is sent only when neither holds and the
\* client is not destroyed.  (Read for the ticks of a client that is not
\* destroyed.)
C10_TickAsStated ==
    [][(IsTick /\ ~destroyed) =>
         /\ (isReconnecting \/ isSwitchingDc) =>
               loop'.pc = "sleep" /\ loop'.sent = 0
         /\ (disconnected /\ ~isReconnecting) =>
               ~loop'.started /\ loop'.sent = 0
         /\ loop'.sent > 0 =>
               /\ ~(isReconnecting \/ isSwitchingDc)
               /\ ~(disconnected /\ ~isReconnecting)
               /\ ~destroyed]_lVars

\* C10: on every tick of a client that is not destroyed: reconnecting or
\* switching datacenter means no probe in the tick and the loop sleeps again;
\* otherwise disconnected means the loop exits without a probe; the first
\* probe of a tick is sent only when the client is not destroyed, not
\* reconnecting, not switching datacenter and not disconnected.  A destroyed
\* client's tick exits without a probe.
C10_Tick ==
    [][IsTick =>
         /\ destroyed => ~loop'.started /\ loop'.sent = 0
         /\ (~destroyed /\ (isReconnecting \/ isSwitchingDc)) =>
               loop'.pc = "sleep" /\ loop'.sent = 0
         /\ (~destroyed /\ ~isReconnecting /\ ~isSwitchingDc /\ disconnected) =>
               ~loop'.started /\ loop'.sent = 0
         /\ loop'.sent > 0 =>
               /\ loop'.sent = 1
               /\ ~destroyed /\ ~isReconnecting /\ ~isSwitchingDc /\ ~disconnected]_lVars

\* a tick was skipped on a client that is disconnected because it is
\* switching datacenter, and the loop sleeps again
C10_Witness ==
    /\ nticks > 0
    /\ loop.decision = "skip" /\ loop.pc = "sleep" /\ loop.sent = 0
    /\ disconnected /\ isSwitchingDc /\ ~isReconnecting /\ ~destroyed

\* the step in which the catch block of a tick goes on after the global
\* error handler was called
AfterHandlerCall == loop.pc = "errh" /\ loop'.pc # "errh"

\* C11: after a probe failure for which the global error handler was called,
\* the last-success timestamp is cleared and exactly one of these happens, in
\* this priority: destroyed, the loop exits; reconnecting or switching
\* datacenter, the loop sleeps for the next tick without calling reconnect;
\* disconnected, the loop exits; otherwise reconnect() is called.
C11_FailureHandling ==
    [][AfterHandlerCall =>
         /\ loop'.lastPongAt = NoTime
         /\ destroyed => ~loop'.started /\ ~loop'.asked
         /\ (~destroyed /\ (isReconnecting \/ isSwitchingDc)) =>
               loop'.pc = "sleep" /\ ~loop'.asked
         /\ (~destroyed /\ ~isReconnecting /\ ~isSwitchingDc /\ disconnected) =>
               ~loop'.started /\ ~loop'.asked
         /\ (~destroyed /\ ~isReconnecting /\ ~isSwitchingDc /\ ~disconnected) =>
               loop'.started /\ loop'.asked /\ loop'.pc \in {"sleep", "refresh"}]_lVars

\* C12: whenever the keepalive loop has ended, the loop-started flag is
\* cleared, and the loop calls client.disconnect() only on a destroyed client.
C12_ExitClearsStarted ==
    /\ loop.pc \in {"exited", "closing", "crashed"} => ~loop.started
    /\ loop.pc = "closing" => destroyed

\* C29: on the path through attempts(), a tick sends at most
\* PING_FAIL_ATTEMPTS probes, one at a time.  When a probe settles, no more
\* than PING_TIMEOUT has passed and no probe is sent in that step; if it
\* succeeded the tick sends no other probe and records the time; if it failed
\* and was not the third, the short pause follows; if the third failed, no
\* pause follows and the failure handling of the tick gets what that probe
\* threw (TIMEOUT exactly when the probe took PING_TIMEOUT).  The pause
\* follows a failed probe only, and when it ends after PING_FAIL_INTERVAL the
\* next probe is sent.
C29_BoundedRetry ==
    /\ [](loop.pc \in {"probe", "pause"} =>
            (loop.sent = loop.i + 1 /\ loop.sent <= PING_FAIL_ATTEMPTS))
    /\ [][
            /\ (loop.pc = "probe" /\ loop' # loop) =>
                /\ loop'.now - loop.now \in {0, PING_TIMEOUT}
                /\ loop'.sent = loop.sent
                /\ \/ /\ loop'.lastPongAt = loop.now
                      /\ loop'.pc \in {"sleep", "refresh", "closing", "exited"}
                      /\ loop'.now = loop.now
                   \/ /\ loop.i < PING_FAIL_ATTEMPTS - 1
                      /\ loop'.pc = "pause"
                      /\ loop'.lastPongAt = loop.lastPongAt
                   \/ /\ loop.i = PING_FAIL_ATTEMPTS - 1
                      /\ IF errorHandlerSet
                         THEN /\ loop'.pc = "errh"
                              /\ loop'.err \in {"error", "timeout"}
                              /\ loop'.err = "timeout" <=>
                                    loop'.now = loop.now + PING_TIMEOUT
                         ELSE /\ loop'.pc \in {"sleep", "refresh", "closing", "exited"}
                              /\ loop'.lastPongAt = NoTime
            /\ (loop.pc = "pause" /\ loop' # loop) =>
                /\ loop'.pc = "probe"
                /\ loop'.i = loop.i + 1
                /\ loop'.sent = loop.sent + 1
                /\ loop'.now = loop.now + PING_FAIL_INTERVAL
            /\ (loop'.pc = "pause" /\ loop.pc # "pause") => loop.pc = "probe" ]_<<lVars, dVars>>

\* the third probe of a tick has failed by TIMEOUT after the first had failed
\* otherwise, and the global error handler is called with it
C29_Witness ==
    /\ loop.pc = "errh"
    /\ loop.sent = PING_FAIL_ATTEMPTS
    /\ loop.err = "timeout"
    /\ loop.now = PING_INTERVAL + 2 * PING_FAIL_INTERVAL + PING_TIMEOUT

\* the step in which a pending warning timer fires and announces
\* 'disconnected'
WarningFires ==
    /\ loop.warn /\ ~loop'.warn
    /\ loop'.pc = loop.pc
    /\ lastSignal' = UpdateConnectionState(0 - 1)

\* C30 as stated: the warning timer of a tick announces 'disconnected' only
\* while the wake-up probe of that tick has not completed (by success, failure
\* or timeout), and a wake-up probe that succeeds announces 'connected'.
C30_WarningOnlyBeforeProbeEnds ==
    [][ /\ WarningFires => loop.pc = "wake"
        /\ (loop.pc = "wake" /\ loop'.lastPongAt = loop.now /\ loop'.pc # "wake") =>
              lastSignal' = UpdateConnectionState(1) ]_<<lVars, dVars>>

\* C31 as stated: a tick that sends its probe PING_INTERVAL after the last
\* successful probe (the timestamp was not reset in between) sends it on the
\* path through attempts(), not on the wake-up path.
C31_OnScheduleTakesRetryPath ==
    [][ ( /\ IsTick
          /\ loop.lastPongAt # NoTime
          /\ loop'.now - loop.lastPongAt = PING_INTERVAL
          /\ loop'.sent > 0 )
        => loop'.pc = "probe" ]_lVars

\* the step in which the try block or the catch block of a tick that sent a
\* probe ends and the loop goes on
TickGoesOn ==
    /\ loop.pc \in {"probe", "wake", "errh"}
    /\ loop'.pc \in {"sleep", "refresh"}

\* C32 as stated: in every tick in which a probe was sent and the loop did not
\* exit, whether the probe succeeded or failed, if more than 30 minutes have
\* passed since the last request the state query is sent in that tick.
C32_RefreshWhateverTheProbe ==
    [][ (TickGoesOn /\ loop'.stale) => loop'.pc = "refresh" ]_lVars

(***************************************************************************)
(* Claims about the schema parser.                                         *)
(***************************************************************************)

\* the line, as fromLine received it, that the k-th parsed definition came from
SourceLine(k) == Cleaned(tl.lines[tl.origin[k]])

\* the names of the fields of a line that go into the argument mapping, in
\* declaration order, each preceded by a space
RECURSIVE SpacedNames(_)
SpacedNames(argsMatch) ==
    IF argsMatch = << >> THEN << >>
    ELSE (IF Head(argsMatch).brace THEN << >> ELSE <<" ">> \o Head(argsMatch).name)
         \o SpacedNames(Tail(argsMatch))

\* the string made of the definition name, the field names and the result
\* type, after the textual normalizations
NameFieldsResult(match, argsMatch) ==
    Normalized(match.name \o SpacedNames(argsMatch) \o <<" ", "=", " ">> \o match.result)

\* C13: the constructorId of every definition parsed from a line without an
\* explicit id is the CRC32 of the definition name, the field names in
\* declaration order each preceded by a space, ' = ' and the result type,
\* normalized: 'foo field = Bar' for 'foo field:int = Bar;'
C13_DerivedIdHashesFieldNames ==
    \A k \in DOMAIN tl.parsed :
        LineMatch(SourceLine(k)).id = Null =>
            tl.parsed[k].constructorId =
                crc32(NameFieldsResult(LineMatch(SourceLine(k)), findAll(SourceLine(k), 1)))

\* C14: the constructorId of every definition parsed from a line that carries
\* an explicit hexadecimal id, the id 0 included, is that id
C14_ExplicitIdKept ==
    \A k \in DOMAIN tl.parsed :
        LineMatch(SourceLine(k)).id # Null =>
            tl.parsed[k].constructorId = ParseHex(LineMatch(SourceLine(k)).id)

\* the fields of the k-th parsed definition's line that go into the argument
\* mapping
FieldsOf(k) ==
    { f \in { findAll(SourceLine(k), 1)[n] : n \in DOMAIN findAll(SourceLine(k), 1) } :
        ~f.brace }

\* the keys of the k-th parsed definition's argument mapping
KeysOf(k) == { tl.parsed[k].argsConfig[n].key : n \in DOMAIN tl.parsed[k].argsConfig }

\* C35 as stated: a schema field named 'self' is in the parsed definition's
\* argument mapping under the renamed name (is_self, camel-cased isSelf) and
\* never under the key 'self'.
C35_SelfFieldRenamed ==
    \A k \in DOMAIN tl.parsed :
        (\E f \in FieldsOf(k) : f.name = <<"s", "e", "l", "f">>) =>
            /\ <<"i", "s", "S", "e", "l", "f">> \in KeysOf(k)
            /\ <<"s", "e", "l", "f">> \notin KeysOf(k)

\* the line that the loop of parseTl is at, as fromLine would receive it
LineAt == Cleaned(tl.lines[tl.index])

\* the line names the vector pseudo-definition
NamesVector(line) ==
    \E p \in DOMAIN line :
        HasAt(line, p, <<"v", "e", "c", "t", "o", "r", "#", "1", "c", "b", "5", "c", "4", "1", "5">>)

\* C36 as stated: parseTl fails on the first line that is not a comment, a
\* blank line, a section marker or a definition fromLine can parse, with a
\* 'Cannot parse' error that holds that line, and returns no definitions; the
\* only line whose failure is swallowed is the vector pseudo-definition
\* (vector#1cb5c415), after which parsing goes on with the next line.
C36_CannotParseOrVector ==
    [][ (tl.pc = "lines" /\ tl.index <= Len(tl.lines)) =>
          IF \/ LineAt = << >>
             \/ Section(LineAt) # Null
             \/ fromLineThrows(LineAt) = "nothing"
          THEN tl'.pc = "lines" /\ tl'.index = tl.index + 1
          ELSE IF NamesVector(LineAt)
          THEN /\ tl'.pc = "lines" /\ tl'.index = tl.index + 1
               /\ tl'.parsed = tl.parsed
          ELSE /\ tl'.pc = "thrown"
               /\ tl'.error = [kind |-> "Cannot parse TLObject", line |-> LineAt] ]_tl

\* C37 as stated: in every definition parseTl has parsed, no two fields with
\* isFlag set have the same flagName and the same flagIndex.
C37_FlagBitsDistinct ==
    \A k \in DOMAIN tl.parsed :
        \A m, n \in DOMAIN tl.parsed[k].argsConfig :
            (/\ m # n
             /\ tl.parsed[k].argsConfig[m].value.isFlag
             /\ tl.parsed[k].argsConfig[n].value.isFlag) =>
                \/ tl.parsed[k].argsConfig[m].value.flagName
                      # tl.parsed[k].argsConfig[n].value.flagName
                \/ tl.parsed[k].argsConfig[m].value.flagIndex
                      # tl.parsed[k].argsConfig[n].value.flagIndex

(***************************************************************************)
(* Claims about AES-IGE.                                                   *)
(***************************************************************************)

\* n rounded up to the next multiple of the block size
RoundedUp(n) == ((n + blockSize - 1) \div blockSize) * blockSize

\* the b-th block of a buffer, empty when the buffer has no such block
BlockOf(buffer, b) ==
    IF b * blockSize <= Len(buffer)
    THEN SubSeq(buffer, (b - 1) * blockSize + 1, b * blockSize)
    ELSE << >>

\* the pairs of calls on the instance: an encryptIge call and a later
\* decryptIge call on what it returned
RoundTrips ==
    { c \in (DOMAIN ige.calls) \X (DOMAIN ige.calls) :
        /\ c[1] < c[2]
        /\ ige.calls[c[1]].op = "encryptIge"
        /\ ige.calls[c[2]].op = "decryptIge"
        /\ ige.calls[c[2]].input = ige.calls[c[1]].output }

\* C15: on an instance with a 32-byte key and a 32-byte iv, decryptIge of what
\* encryptIge returned for a plaintext p returns a buffer that begins with p
\* and whose length is the length of p rounded up to the next multiple of 16,
\* the length of the ciphertext
C15_RoundTrip ==
    \A c \in RoundTrips :
        /\ Len(ige.key) = 32 /\ Len(ige.iv) = 32
        /\ ige.calls[c[2]].thrown = "nothing"
        /\ SubSeq(ige.calls[c[2]].output, 1, Len(ige.calls[c[1]].input)) = ige.calls[c[1]].input
        /\ Len(ige.calls[c[2]].output) = RoundedUp(Len(ige.calls[c[1]].input))
        /\ Len(ige.calls[c[2]].output) = Len(ige.calls[c[1]].output)

\* a plaintext of 17 bytes was encrypted, with 15 random bytes added, and the
\* two blocks returned were decrypted
C15_Witness ==
    \E c \in RoundTrips :
        /\ Len(ige.calls[c[1]].input) = 17
        /\ Len(ige.calls[c[2]].output) = 32

\* C16: decryptIge on a ciphertext whose length is not a multiple of 16 throws
\* before it decrypts a block and returns nothing
C16_FramingError ==
    \A n \in DOMAIN ige.calls :
        (ige.calls[n].op = "decryptIge" /\ Len(ige.calls[n].input) % 16 # 0) =>
            /\ ige.calls[n].thrown = "Cipher text must be multiple of 16 bytes"
            /\ ige.calls[n].blocks = 0
            /\ ige.calls[n].output = << >>

\* decryptIge was called on 33 bytes, two whole blocks and one byte more
C16_Witness ==
    \E n \in DOMAIN ige.calls :
        /\ ige.calls[n].op = "decryptIge"
        /\ Len(ige.calls[n].input) = 33
        /\ ige.calls[n].thrown # "nothing"

\* the pairs of encryptIge calls on the instance with two different plaintexts
\* of whole blocks
AlignedPairs ==
    { c \in (DOMAIN ige.calls) \X (DOMAIN ige.calls) :
        /\ ige.calls[c[1]].op = "encryptIge"
        /\ ige.calls[c[2]].op = "encryptIge"
        /\ Len(ige.calls[c[1]].input) % blockSize = 0
        /\ Len(ige.calls[c[2]].input) % blockSize = 0
        /\ ige.calls[c[1]].input # ige.calls[c[2]].input }

\* the first block in which two different buffers differ
FirstDifference(p, q) ==
    CHOOSE k \in 1 .. (Len(p) + Len(q)) \div blockSize :
        /\ BlockOf(p, k) # BlockOf(q, k)
        /\ \A b \in 1 .. k - 1 : BlockOf(p, b) = BlockOf(q, b)

\* C17: for one key and iv and two plaintexts of whole blocks that first
\* differ in block k, what encryptIge returns for them is equal in every block
\* before k and differs in block k
C17_Diffusion ==
    \A c \in AlignedPairs :
        /\ \A b \in 1 .. FirstDifference(ige.calls[c[1]].input, ige.calls[c[2]].input) - 1 :
              BlockOf(ige.calls[c[1]].output, b) = BlockOf(ige.calls[c[2]].output, b)
        /\ BlockOf(ige.calls[c[1]].output,
                   FirstDifference(ige.calls[c[1]].input, ige.calls[c[2]].input))
           # BlockOf(ige.calls[c[2]].output,
                     FirstDifference(ige.calls[c[1]].input, ige.calls[c[2]].input))

\* two plaintexts of two blocks that are equal in the first block and differ in
\* the second were encrypted
C17_Witness ==
    \E c \in AlignedPairs :
        /\ Len(ige.calls[c[1]].input) = 32
        /\ Len(ige.calls[c[2]].input) = 32
        /\ FirstDifference(ige.calls[c[1]].input, ige.calls[c[2]].input) = 2

\* the calls on the instance whose input is made of whole blocks
AlignedCalls == { n \in DOMAIN ige.calls : Len(ige.calls[n].input) % blockSize = 0 }

\* C38: an IGE instance keeps no chaining state between calls.  Every call on
\* whole blocks returns what the operation gives for the instance's key and iv
\* alone, its first block being chained to iv1 as previous cipher block and iv2
\* as previous plain block, so two calls with the same input return the same;
\* and no call changes the key or the iv.
C38_NoChainingState ==
    /\ [](\A n \in AlignedCalls :
            /\ ige.calls[n].op = "encryptIge" =>
                  /\ ige.calls[n].output
                        = encryptIge(ige.key, ige.iv, ige.calls[n].input, << >>)
                  /\ ige.calls[n].input # << >> =>
                        BlockOf(ige.calls[n].output, 1)
                          = xorBuffers(
                              aesEncryptBlock(ige.key,
                                  xorBuffers(BlockOf(ige.calls[n].input, 1),
                                             SubSeq(ige.iv, 1, blockSize))),
                              SubSeq(ige.iv, blockSize + 1, 2 * blockSize))
            /\ ige.calls[n].op = "decryptIge" =>
                  /\ ige.calls[n].output
                        = decryptIge(ige.key, ige.iv, ige.calls[n].input).output
                  /\ ige.calls[n].input # << >> =>
                        BlockOf(ige.calls[n].output, 1)
                          = xorBuffers(
                              aesDecryptBlock(ige.key,
                                  xorBuffers(BlockOf(ige.calls[n].input, 1),
                                             SubSeq(ige.iv, blockSize + 1, 2 * blockSize))),
                              SubSeq(ige.iv, 1, blockSize))
            /\ \A m \in AlignedCalls :
                  (/\ ige.calls[m].op = ige.calls[n].op
                   /\ ige.calls[m].input = ige.calls[n].input) =>
                      ige.calls[m].output = ige.calls[n].output)
    /\ [][ige.pc = "ready" => (ige'.key = ige.key /\ ige'.iv = ige.iv)]_ige

\* the same two blocks were encrypted twice on the instance
C38_Witness ==
    /\ Len(ige.calls) = 2
    /\ ige.calls[1].op = "encryptIge" /\ Len(ige.calls[1].input) = 32
    /\ ige.calls[2].op = "encryptIge"
    /\ ige.calls[2].input = ige.calls[1].input
    /\ ige.calls[2].output = ige.calls[1].output

(***************************************************************************)
(* Claims about the sign-in flows.                                         *)
(***************************************************************************)

\* the places where a flow awaits a request to the server or a callback of
\* authParams other than onError
AuthRpcs ==
    {"sendCode", "sendVerifyEmailCode", "verifyEmail", "verifyEmailSent", "signIn",
     "signUp", "acceptTermsOfService", "getPassword", "checkPassword"}

AuthCallbacks ==
    {"phoneNumber", "emailAddress", "emailVerification", "emailVerificationSent",
     "phoneCode", "firstAndLastNames", "password"}

\* the step that the failure reported to onError belongs to starts again with
\* this await
RetriedAwait ==
    CASE auth.pc = "onErrorPhone" -> "phoneNumber"
      [] auth.pc = "onErrorCode" -> "phoneCode"
      [] auth.pc = "onErrorRegistration" ->
           IF auth.hasNames THEN "firstAndLastNames" ELSE "signUp"
      [] auth.pc = "onErrorPassword" -> "getPassword"

LateSettlement(k) ==
    /\ race.calls[k].result # "pending"
    /\ race.calls[k].op = "pending"
    /\ race'.calls[k].op # "pending"

\* C33: timeout(op, ms) fails with TIMEOUT exactly when op had not settled
\* when the timer of ms fired; the probe that lost the race is not cancelled,
\* and when it completes or fails later the result of the call, the state of
\* its caller and the state of _updateLoop stay as they were and no error is
\* thrown; when op settles first the timer's promise is fulfilled with
\* undefined and rejects nothing.
C33_TimeoutRace ==
    /\ [](\A k \in 1..Len(race.calls) :
            /\ race.calls[k].result = "TIMEOUT" <=> race.calls[k].atExpiry = "pending"
            /\ race.calls[k].atExpiry \in {"fulfilled", "rejected"} =>
                  race.calls[k].sleepThen = "undefined"
            /\ race.calls[k].result \in {"pong", "error"} =>
                  race.calls[k].op # "pending")
    /\ [][\A k \in 1..Len(race.calls) :
            /\ race.calls[k].result # "pending" =>
                  race'.calls[k].result = race.calls[k].result
            /\ LateSettlement(k) =>
                  /\ race'.pc = race.pc /\ race'.i = race.i /\ race'.err = race.err
                  /\ Len(race'.calls) = Len(race.calls)
                  /\ \A j \in 1..Len(race.calls) :
                        j # k => race'.calls[j] = race.calls[j]
                  /\ UNCHANGED lVars]_vars

\* the first probe lost its race and failed afterwards, the second won its
\* race and its timer fired afterwards
C33_Witness ==
    /\ Len(race.calls) = 2
    /\ race.calls[1].result = "TIMEOUT" /\ race.calls[1].op = "rejected"
    /\ race.calls[2].result = "pong" /\ race.calls[2].timer = "fired"
    /\ race.pc = "returned"

(***************************************************************************)
(* Claims about the two schema parsers.                                    *)
(***************************************************************************)

\* C39: for every schema text, parseTl of parser.ts and parseTl of
\* generationHelpers.js with its default ignore set either both fail or
\* return the same definitions in the same order, with equal name, namespace,
\* constructorId, subclassOfId, result, isFunction and argument configuration.
C39_ParsersAgree ==
    gen.pc # "idle" =>
        /\ gen.pc = "thrown" <=> tl.pc = "thrown"
        /\ gen.pc = "returned" =>
              /\ Len(gen.objAll) = Len(tl.parsed)
              /\ \A k \in DOMAIN tl.parsed :
                    /\ gen.objAll[k].name = tl.parsed[k].name
                    /\ gen.objAll[k].namespace = tl.parsed[k].namespace
                    /\ gen.objAll[k].constructorId = tl.parsed[k].constructorId
                    /\ gen.objAll[k].subclassOfId = tl.parsed[k].subclassOfId
                    /\ gen.objAll[k].result = tl.parsed[k].result
                    /\ gen.objAll[k].isFunction = tl.parsed[k].isFunction
                    /\ gen.objAll[k].argsConfig = tl.parsed[k].argsConfig

\* both parsers returned two definitions, one of them in a namespace and with
\* fields
C39_Witness ==
    /\ gen.pc = "returned" /\ tl.pc = "returned"
    /\ Len(gen.objAll) = 2
    /\ \E k \in DOMAIN gen.objAll :
          /\ gen.objAll[k].namespace # Null
          /\ gen.objAll[k].argsConfig # << >>

(***************************************************************************)
(* Claims about InlineQueryEvent.answer.                                   *)
(***************************************************************************)

\* C40 as stated: for one InlineQueryEvent the SetInlineBotResults request
\* succeeds at most once over any interleaving of answer() calls; an answer()
\* call made after another has returned true, or while another awaits its
\* response, returns false and sends no request; a request that fails leaves
\* the event unanswered.
C40_AnsweredAtMostOnce ==
    [][ /\ inline'.succeeded <= 1
        /\ \A c \in 1 .. MaxAnswers :
              /\ (/\ inline.calls[c] = "idle" /\ inline'.calls[c] # "idle"
                  /\ \E o \in (1 .. MaxAnswers) \ {c} : inline.calls[o] \in {"true", "invoke"}) =>
                     /\ inline'.calls[c] = "false"
                     /\ inline'.sent = inline.sent
              /\ (inline.calls[c] = "invoke" /\ inline'.calls[c] = "false") =>
                     inline'.answered = inline.answered ]_inline

====
